---- MODULE Spec2Model ----
(***************************************************************************)
(* zapw: the connection lifecycle of a WhatsApp session.                   *)
(*                                                                         *)
(* The model follows Node's execution: the code between two awaits that    *)
(* need the event loop (file I/O, timers, network) is one atomic step.  A  *)
(* promise that is already settled resumes in the same macrotask, so such  *)
(* an await does not end a step.  The clock `now` is Date.now() in ms.     *)
(*                                                                         *)
(* A save or a removal of a session's metadata is a step at the moment its *)
(* write lands.  With one session id the file a write leaves depends on    *)
(* that write alone (metadata[id] = data, or delete metadata[id]), not on  *)
(* what its loadMetadata had read, so the order in which the writes of the *)
(* operations in flight land is all that matters, and that order is free.  *)
(*                                                                         *)
(* The specifications share the variables: Spec (requests over both        *)
(* transports), SpecRefresh (QR refresh over Baileys), SpecStartup (the    *)
(* recovery of persisted sessions by startServer), SpecWebhook (the        *)
(* WebhookAdapter delivering events), SpecAuth (the API key middleware),   *)
(* SpecSend (sending messages), SpecEvents (the lifecycle handlers handing *)
(* their events to the WebhookAdapter), SpecMessages (the handlers of      *)
(* received messages and status updates), SpecValidate (the validator of   *)
(* send requests), SpecStore (the PersistenceAdapter called alone, on the  *)
(* metadata file as found on disk) and SpecRefreshLive (QR refresh with    *)
(* fairness, over a transport that answers every connect()).               *)
(***************************************************************************)
EXTENDS Integers, Sequences, FiniteSets, TLC

\* ---------------------------------------------------------------- bounds
\* Concurrent GET /sessions/:id requests.
NumReaders == 2
\* What the environment does at most under Spec, where every request and both
\* transports occur: transport clients constructed (new MockWhatsAppClient /
\* BaileysClient), QR codes the Baileys sockets emit, DELETE requests that
\* find the session.
MaxHandles == 2
MaxQr == 1
MaxDeletes == 1
\* The same under SpecRefresh, where a session is created once over Baileys
\* and then read: it is regenerated up to twice.
RefreshHandles == 3
RefreshQr == 2
\* QR codes the Baileys sockets emit under SpecStartup, where the process
\* starts from the metadata file of an earlier run.
StartupQr == 1
\* Under SpecWebhook, where events are handed to the WebhookAdapter: the calls
\* of sendEvent in flight at once, the events sent, the deliveries that fail.
NumSenders == 1
MaxEvents == 12
MaxFailures == 3
\* Under SpecSend, where messages are sent: the POST .../messages requests
\* and the transport clients constructed.
MaxSends == 2
SendHandles == 1
\* Under SpecEvents and SpecMessages, where the handlers of the transport's
\* events hand them to the WebhookAdapter: the calls of sendEvent in flight at
\* once, and the events handed before which the transport still reports a
\* message or a status.
EventSlots == 3
MaxInbound == 1

\* ------------------------------------------------------ program constants
QrTtlMs == 60000
CreateTimeoutMs == 30000
RefreshTimeoutMs == 15000
MockQrDelayMs == 100
MockConnectDelayMs == 2000
BufferCapacity == 10
RetryAttemptsDefault == 3
RetryDelayMs == 1000
PostTimeoutMs == 10000
\* MockWhatsAppClient.sendMessage: "Simulate message sending with a small delay".
MockSendDelayMs == 100

\* ------------------------------------------------------------ value sets
SessionIds == {"s1"}
\* The ids of the metadata records a start of the process may find, in the
\* order of the file.
PersistedOrder == <<"s1", "s2">>
PersistedIds == {PersistedOrder[i] : i \in DOMAIN PersistedOrder}
Handles == 1..RefreshHandles
Creator == <<"create", 0>>
Deleter == <<"delete", 0>>
Readers == {<<"read", i>> : i \in 1..NumReaders}
Procs == {Creator, Deleter} \cup Readers

\* undefined, for a string field, a Date field, the qrCode and a SessionData
Undef == "undefined"
NoTime == -1
NoQr == <<>>
NoIso == <<>>
NoRec == <<>>
NoHandle == 0

\* new Map(), and the metadata file when it does not exist (loadMetadata: {})
EmptyMap == [x \in {} |-> x]

\* No response was sent in the step just taken.
NoRet == [p |-> <<"none", 0>>, res |-> "none", h |-> NoHandle, start |-> NoTime]

\* ConnectionInfo a transport reports: the mock's fixed account, and the
\* Baileys client's `user?.id.split(':')[0] || ''`.
MockInfo == [phoneNumber |-> "1234567890", name |-> "Test User"]
BaileysInfos == {[phoneNumber |-> "5511999", name |-> "Ana"], [phoneNumber |-> "", name |-> ""]}

Min(S) == CHOOSE x \in S : \A y \in S : x <= y

\* ------------------------------------------------------------- variables
VARIABLES
  now,          \* Date.now()
  useMock,      \* WhatsAppService.useMock
  user,         \* the account the WhatsApp sockets report when they open
  quota,        \* what the environment does at most: handles, qrs, deletes
  sessions,     \* SessionManager.sessions: id -> Session (the Registry)
  clients,      \* WhatsAppService.clients: id -> transport client
  metadataFile, \* sessions-metadata.json: id -> SessionData
  authDirs,     \* ids whose auth directory exists under sessions_data
  numHandles,   \* transport clients constructed so far
  hs,           \* per transport client: connectionState, socket, timers
  cb,           \* per transport client: its callbacks in flight
  procs,        \* the HTTP requests in flight
  ret,          \* the response sent in the step just taken, if any
  qrSeq,        \* QR codes the Baileys sockets have emitted
  numDeletes,   \* DELETE requests that found the session
  boot,         \* startServer: where the startup of the process is
  wh,           \* WebhookAdapter and the event buffer of the events controller
  auth,         \* API_KEY, and the last request authMiddleware saw with its outcome
  msgs          \* the POST /sessions/:sessionId/messages request in flight

\* What the requests, the transport events and the handlers leave alone.
env == <<useMock, user, quota, boot, wh, auth, msgs>>

vars == <<now, env, sessions, clients, metadataFile, authDirs, numHandles, hs, cb, procs, ret, qrSeq, numDeletes>>

\* ---------------------------------------------------------------- Session
\* Date.toISOString: an ISO string keeps the milliseconds.
ToISOString(t) == <<"iso", t>>

\* SessionManager.createSession: the record put in the Registry.
NewSession(id, t) ==
  [id |-> id, status |-> "initializing", phoneNumber |-> Undef, name |-> Undef,
   createdAt |-> t, connectedAt |-> NoTime, qrCode |-> NoQr, qrExpiresAt |-> NoTime]

\* The spread if it started from a new record instead of the session.
Spread_FromNew(session, updates) ==
  [f \in DOMAIN session |->
     IF f \in DOMAIN updates THEN updates[f] ELSE NewSession(session.id, now)[f]]

\* { ...session, ...updates }
Spread(session, updates) ==
  [f \in DOMAIN session |-> IF f \in DOMAIN updates THEN updates[f] ELSE session[f]]

\* SessionManager.updateSession up to its await: the Registry after the set.
\* The caller has checked that id is in the Registry (otherwise it throws).
updateSession(sess, id, updates) ==
  [sess EXCEPT ![id] = Spread(sess[id], updates)]

\* SessionManager.persistSessionMetadata: the SessionData written for a session.
SessionDataOf(session, t) ==
  [id |-> session.id, phoneNumber |-> session.phoneNumber, name |-> session.name,
   createdAt |-> ToISOString(session.createdAt),
   connectedAt |-> IF session.connectedAt = NoTime THEN NoIso ELSE ToISOString(session.connectedAt),
   lastDisconnectedAt |-> IF session.status = "disconnected" THEN ToISOString(t) ELSE NoIso]

\* PersistenceAdapter.saveSessionMetadata: metadata[session.id] = session.
saveSessionMetadata(metadata, data) ==
  [x \in DOMAIN metadata \cup {data.id} |-> IF x = data.id THEN data ELSE metadata[x]]

\* removeSessionMetadata if it emptied the metadata.
removeSessionMetadata_All(metadata, id) == EmptyMap

\* PersistenceAdapter.removeSessionMetadata: delete metadata[sessionId].
removeSessionMetadata(metadata, id) ==
  [x \in DOMAIN metadata \ {id} |-> metadata[x]]

\* sessions.delete(id) / clients.delete(id)
MapDelete(m, id) == [x \in DOMAIN m \ {id} |-> m[x]]

\* sessions.set(id, v) / clients.set(id, v)
MapSet(m, id, v) == [x \in DOMAIN m \cup {id} |-> IF x = id THEN v ELSE m[x]]

\* ------------------------------------------------------- transport client
\* A callback in flight: st is where its async handler is suspended, tok the
\* QR data it converts, rec the SessionData its updateSession writes.
NoTask == [st |-> "none", tok |-> NoQr, rec |-> NoRec]

NoCallbacks == [qr |-> NoTask, cn |-> NoTask, dc |-> NoTask]

\* A client fresh from its constructor: connectionState = 'closed', no socket,
\* no timer.  cause records the request that constructed it, connects the
\* calls of its connect().
FreshClient(id, why) ==
  [sid |-> id, conn |-> "closed", sock |-> "none", qrDue |-> NoTime, connDue |-> NoTime,
   cause |-> why, connects |-> 0]

Unbuilt == FreshClient("s1", <<"unbuilt">>)

\* An HTTP request: pc is where its handler is suspended, h the client its
\* initializeSession constructed, start the startTime of its waitForQRCode,
\* res the error its teardown will rethrow.
IdleProc ==
  [pc |-> "idle", id |-> "s1", h |-> NoHandle, start |-> NoTime, res |-> "none", rec |-> NoRec]

\* ------------------------------------------------------ webhook adapter
\* The event types the service emits; event number n has type n modulo them.
EventTypes ==
  <<"session.connected", "session.disconnected", "message.received",
    "message.sent", "message.delivered", "message.read">>

\* The n-th WebhookEvent handed to sendEvent.
EventNo(n) ==
  [sessionId |-> "s1", eventType |-> EventTypes[((n - 1) % Len(EventTypes)) + 1], data |-> n]

\* storeWebhookEvent if it added the event at the end of the array.
storeWebhookEvent_Push(events, counter, event, t) ==
  LET stored == [id |-> <<"evt", counter + 1>>, sessionId |-> event.sessionId,
                 eventType |-> event.eventType, timestamp |-> t, data |-> event.data]
      all == Append(events, stored)
  IN IF Len(all) > BufferCapacity THEN SubSeq(all, 1, BufferCapacity) ELSE all

\* storeWebhookEvent: events.unshift(event), then "Keep only last 10 events".
storeWebhookEvent(events, counter, event, t) ==
  LET stored == [id |-> <<"evt", counter + 1>>, sessionId |-> event.sessionId,
                 eventType |-> event.eventType, timestamp |-> t, data |-> event.data]
      all == <<stored>> \o events
  IN IF Len(all) > BufferCapacity THEN SubSeq(all, 1, BufferCapacity) ELSE all

\* sendEvent if it looked at the enabled flag only.
Deliverable_EnabledOnly(w) == w.enabled

\* sendEvent: it delivers unless `!this.enabled || !this.webhookUrl`.
Deliverable(w) == w.enabled /\ w.webhookUrl # ""

\* sendEvent if it waited retryDelay after every failed attempt.
DelayAfter_Constant(attempt) == RetryDelayMs

\* sendEvent: this.delay(this.retryDelay * attempt).
DelayAfter(attempt) == RetryDelayMs * attempt

\* sendEvent if it rethrew the last error once every attempt has failed.
AllAttemptsFailed_Rethrows == "threw"

\* sendEvent after its loop: the failure is logged and it returns.
AllAttemptsFailed == "dropped"

\* No call of sendEvent is in flight in this slot.
NoCall == [st |-> "idle", n |-> 0, attempt |-> 0, postAt |-> NoTime, failAt |-> NoTime, due |-> NoTime]

\* The adapter as constructed from a configuration, and an empty event buffer.
\* posts counts the calls of axios.post, fails those that failed.
NewWebhook(enabled, url, attempts) ==
  [enabled |-> enabled, webhookUrl |-> url, retryAttempts |-> attempts,
   events |-> <<>>, eventIdCounter |-> 0, numEvents |-> 0,
   calls |-> [s \in 1..NumSenders |-> NoCall], posts |-> 0, fails |-> 0]

\* ------------------------------------------------------------ middleware
\* A header value or a key is the sequence of its characters, so that
\* startsWith and substring are computed; the empty sequence stands for ''
\* and for a header that is absent (undefined), which the middleware does not
\* tell apart: it only tests them for truthiness.
Bearer == <<"B", "e", "a", "r", "e", "r", " ">>

\* s.startsWith(prefix)
StartsWith(s, prefix) == Len(s) >= Len(prefix) /\ SubSeq(s, 1, Len(prefix)) = prefix

\* s.substring(from)
Substring(s, from) == SubSeq(s, from + 1, Len(s))

EXCLUDED_PATHS == {"/health", "/"}

\* next()
Passed == [next |-> TRUE, status |-> 0, message |-> ""]

\* res.status(401).json({ error: 'Unauthorized', message })
Unauthorized(message) == [next |-> FALSE, status |-> 401, message |-> message]

\* authMiddleware if it let every request through that gives some key.
authMiddleware_AnyKey(apiKey, req) ==
  IF apiKey = <<>> \/ req.path \in EXCLUDED_PATHS
  THEN Passed
  ELSE IF req.authorization = <<>> /\ req.xApiKey = <<>>
  THEN Unauthorized("API key is required")
  ELSE Passed

\* authMiddleware(req, res, next), with apiKey = process.env.API_KEY.
authMiddleware(apiKey, req) ==
  IF apiKey = <<>>
  THEN Passed
  ELSE IF req.path \in EXCLUDED_PATHS
  THEN Passed
  ELSE LET authHeader == req.authorization
           xApiKey == req.xApiKey
           providedKey ==
             IF authHeader # <<>> /\ StartsWith(authHeader, Bearer)
             THEN Substring(authHeader, 7)
             ELSE IF xApiKey # <<>> THEN xApiKey ELSE <<>>
       IN IF providedKey = <<>>
          THEN Unauthorized("API key is required")
          ELSE IF providedKey # apiKey
          THEN Unauthorized("Invalid API key")
          ELSE Passed

\* No request has come yet.
NoReq == [path |-> "", authorization |-> <<>>, xApiKey |-> <<>>]
NoOut == [next |-> FALSE, status |-> 0, message |-> ""]

\* API_KEY is not set and no request has come.
NoAuth == [apiKey |-> <<>>, req |-> NoReq, out |-> NoOut]

\* No POST /sessions/:sessionId/messages request is in flight.
NoSend == [st |-> "idle", id |-> "s1", h |-> NoHandle, due |-> NoTime, n |-> 0, calls |-> 0]

TypeOK ==
  /\ now \in Nat
  /\ useMock \in BOOLEAN
  /\ user \in BaileysInfos \cup {MockInfo}
  /\ DOMAIN sessions \subseteq SessionIds \cup PersistedIds
  /\ DOMAIN clients \subseteq SessionIds \cup PersistedIds
  /\ \A id \in DOMAIN clients : clients[id] \in 1..numHandles
  /\ DOMAIN metadataFile \subseteq SessionIds \cup PersistedIds
  /\ authDirs \subseteq SessionIds \cup PersistedIds
  /\ boot.pc \in {"start", "recover", "loaded", "next", "init_io", "auth_io", "done"}
  /\ numHandles \in 0..quota.handles
  /\ qrSeq \in 0..quota.qrs
  /\ numDeletes \in 0..quota.deletes
  /\ \A p \in Procs : procs[p].pc \in {"idle", "cs_io", "init_io", "auth_io", "wait", "rm_io", "rm_auth"}
  /\ \A id \in DOMAIN sessions :
       sessions[id].status \in {"initializing", "connecting", "qr_waiting", "connected", "disconnected"}

\* startServer has finished: the server listens.
BootDone ==
  [pc |-> "done", list |-> <<>>, i |-> 0, todo |-> <<>>, h |-> NoHandle, rec |-> NoRec, failed |-> {}]

\* The service right after it started with no persisted session.
Started ==
  /\ now = 0
  /\ boot = BootDone
  /\ wh = NewWebhook(FALSE, "", RetryAttemptsDefault)
  /\ auth = NoAuth
  /\ msgs = NoSend
  /\ sessions = EmptyMap
  /\ clients = EmptyMap
  /\ metadataFile = EmptyMap
  /\ authDirs = {}
  /\ numHandles = 0
  /\ hs = [h \in Handles |-> Unbuilt]
  /\ cb = [h \in Handles |-> NoCallbacks]
  /\ procs = [p \in Procs |-> IdleProc]
  /\ ret = NoRet
  /\ qrSeq = 0
  /\ numDeletes = 0

Init ==
  /\ Started
  /\ useMock \in BOOLEAN
  /\ user \in IF useMock THEN {MockInfo} ELSE BaileysInfos
  /\ quota = [handles |-> MaxHandles, qrs |-> MaxQr, deletes |-> MaxDeletes]

InitRefresh ==
  /\ Started
  /\ useMock = FALSE
  /\ user = [phoneNumber |-> "5511999", name |-> "Ana"]
  /\ quota = [handles |-> RefreshHandles, qrs |-> RefreshQr, deletes |-> 0]

\* The state the service's synchronous code reads and writes, as one value, so
\* that the calls a step makes one after the other compose.
Cur == [sessions |-> sessions, clients |-> clients, hs |-> hs, cb |-> cb]

Apply(st) ==
  /\ sessions' = st.sessions
  /\ clients' = st.clients
  /\ hs' = st.hs
  /\ cb' = st.cb

\* The updates of the client.onConnected handler if it cleared the QR code
\* and left its expiration.
OnConnectedUpdates_KeepsExpiry(info, t) ==
  [phoneNumber |-> info.phoneNumber, name |-> info.name, status |-> "connected",
   connectedAt |-> t, qrCode |-> NoQr]

\* The updates of the client.onConnected handler.
OnConnectedUpdates(info, t) ==
  [phoneNumber |-> info.phoneNumber, name |-> info.name, status |-> "connected",
   connectedAt |-> t, qrCode |-> NoQr, qrExpiresAt |-> NoTime]

\* The updates of the client.onQR handler if it set the status alone.
OnQRUpdates_StatusOnly(qrCodeImage, t) == [status |-> "qr_waiting"]

\* The updates of the client.onQR handler: QR codes expire after 60 seconds.
OnQRUpdates(qrCodeImage, t) ==
  [qrCode |-> qrCodeImage, qrExpiresAt |-> t + QrTtlMs, status |-> "qr_waiting"]

\* The updates of the client.onDisconnected handler.
OnDisconnectedUpdates == [status |-> "disconnected"]

\* A handler's update if updateSession made the session it does not find.
HandlerUpdate_Upsert(st, h, kind, updates) ==
  LET id == st.hs[h].sid
      sess == MapSet(st.sessions, id,
                     Spread(IF id \in DOMAIN st.sessions THEN st.sessions[id]
                            ELSE NewSession(id, now), updates))
  IN [st EXCEPT !.sessions = sess,
                !.cb[h][kind] = [NoTask EXCEPT !.st = "io", !.rec = SessionDataOf(sess[id], now)]]

\* A handler's `sessionManager.updateSession(sid, updates)` up to its await:
\* the Registry is set and the write of the metadata starts; when the session
\* is not in the Registry updateSession throws and the handler ends.
HandlerUpdate(st, h, kind, updates) ==
  LET id == st.hs[h].sid IN
  IF id \in DOMAIN st.sessions
  THEN LET sess == updateSession(st.sessions, id, updates)
       IN [st EXCEPT !.sessions = sess,
                     !.cb[h][kind] = [NoTask EXCEPT !.st = "io",
                                                    !.rec = SessionDataOf(sess[id], now)]]
  ELSE [st EXCEPT !.cb[h][kind] = NoTask]

\* client.onQR handler up to `await QRCode.toDataURL(qr, ...)`.
onQR(st, h, qr) == [st EXCEPT !.cb[h].qr = [NoTask EXCEPT !.st = "img", !.tok = qr]]

\* client.onConnected handler up to its first await.
onConnected(st, h, info) == HandlerUpdate(st, h, "cn", OnConnectedUpdates(info, now))

\* client.onDisconnected handler up to its first await.
onDisconnected(st, h) == HandlerUpdate(st, h, "dc", OnDisconnectedUpdates)

\* client.disconnect().  The mock sets 'closed' and calls the disconnected
\* callback; its timers keep running.  The Baileys client ends its socket,
\* which reports 'close' before end() returns unless it had closed already,
\* and forgets it; without a socket it does nothing.
disconnect(st, h) ==
  LET c == st.hs[h]
      st1 == [st EXCEPT !.hs[h].conn = IF useMock \/ c.sock # "none" THEN "closed" ELSE @,
                        !.hs[h].sock = "none"]
  IN IF useMock \/ c.sock = "live" THEN onDisconnected(st1, h) ELSE st1

\* WhatsAppService.terminateSession:
\*   const client = this.clients.get(id);
\*   if (client) { await client.disconnect(); this.clients.delete(id); }
terminateSession(st, id) ==
  IF id \in DOMAIN st.clients
  THEN [disconnect(st, st.clients[id]) EXCEPT !.clients = MapDelete(@, id)]
  ELSE st

\* refreshQRCode, "Disconnect and reconnect to get new QR": the same lines.
refreshDisconnect(st, id) ==
  IF id \in DOMAIN st.clients
  THEN [disconnect(st, st.clients[id]) EXCEPT !.clients = MapDelete(@, id)]
  ELSE st

\* initializeSession if it constructed the client and left the status alone.
initializeSession_NoStatus(st, id, hn, why) ==
  [st EXCEPT !.hs[hn] = FreshClient(id, why)]

\* WhatsAppService.initializeSession up to the await of its updateSession: the
\* client hn is constructed, its handlers are set and the status is connecting.
initializeSession(st, id, hn, why) ==
  [st EXCEPT !.hs[hn] = FreshClient(id, why),
             !.sessions = updateSession(@, id, [status |-> "connecting"])]

\* client.connect() up to its first await.  The mock sets 'connecting', starts
\* its two timers and returns; the Baileys client starts loading its auth state.
connect(st, h) ==
  IF useMock
  THEN [st EXCEPT !.hs[h].conn = "connecting",
                  !.hs[h].qrDue = now + MockQrDelayMs,
                  !.hs[h].connDue = now + MockConnectDelayMs,
                  !.hs[h].connects = @ + 1]
  ELSE [st EXCEPT !.hs[h].connects = @ + 1]

\* BaileysClient.connect() after useMultiFileAuthState: makeWASocket,
\* connectionState = 'connecting', the listeners are set.
makeWASocket(st, h) == [st EXCEPT !.hs[h].conn = "connecting", !.hs[h].sock = "live"]

\* waitForQRCode if it did not look for a session that is already connected.
WaitSatisfied_NoConnected(session) ==
  \/ session.qrCode # NoQr
  \/ session.status = "disconnected"

\* waitForQRCode if it returned as soon as the session has left 'initializing'.
WaitSatisfied_NotInitializing(session) ==
  \/ session.qrCode # NoQr
  \/ session.status # "initializing"

\* waitForQRCode: "If we have a QR code or session is already connected/failed".
WaitSatisfied(session) ==
  \/ session.qrCode # NoQr
  \/ session.status = "connected"
  \/ session.status = "disconnected"

\* waitForQRCode: the loop condition, Date.now() - startTime < timeoutMs.
WaitGoesOn(start, timeoutMs, t) == t - start < timeoutMs

\* One turn of the loop of waitForQRCode at time t.
WaitOutcome(sess, id, start, timeoutMs, t) ==
  IF ~WaitGoesOn(start, timeoutMs, t) THEN "timeout"
  ELSE IF id \notin DOMAIN sess THEN "notfound"
  ELSE IF WaitSatisfied(sess[id]) THEN "ok"
  ELSE "sleep"

\* waitForQRCode(sessionId) of POST /sessions, waitForQRCode(sessionId, 15000)
\* of refreshQRCode.
TimeoutOf(p) == IF p = Creator THEN CreateTimeoutMs ELSE RefreshTimeoutMs

\* refreshQRCode without its status guard: it looks at the expiry only.
RefreshIsNoop_ExpiryOnly(session, t) ==
  session.qrExpiresAt # NoTime /\ t < session.qrExpiresAt

\* refreshQRCode without its expiry guard: it looks at the status only.
RefreshIsNoop_StatusOnly(session, t) ==
  session.status # "qr_waiting"

\* refreshQRCode: the two guards under which it returns without doing anything.
RefreshIsNoop(session, t) ==
  \/ session.status # "qr_waiting"
  \/ (session.qrExpiresAt # NoTime /\ t < session.qrExpiresAt)

\* --------------------------------------------------------- HTTP requests
\* A request's handler returns or throws and its response is sent: res is what
\* it says; the next request of its kind may arrive.
Return(p, pr, res) ==
  /\ procs' = [procs EXCEPT ![p] = IdleProc]
  /\ ret' = [p |-> p, res |-> res, h |-> pr.h, start |-> pr.start]

\* deleteSession if it did not look whether the id exists: it goes on to the
\* removals for an unknown id too.
deleteSession_NoCheck(p, pr, st, id, res) ==
  /\ Apply([st EXCEPT !.sessions = MapDelete(@, id)])
  /\ procs' = [procs EXCEPT ![p] = [pr EXCEPT !.pc = "rm_io", !.id = id, !.res = res]]
  /\ ret' = NoRet

\* SessionManager.deleteSession up to its first await, after the calls that
\* led to st: the session leaves the Registry and the removal of its metadata
\* starts; an unknown id returns false at once.
deleteSession(p, pr, st, id, res) ==
  IF id \in DOMAIN st.sessions
  THEN /\ Apply([st EXCEPT !.sessions = MapDelete(@, id)])
       /\ procs' = [procs EXCEPT ![p] = [pr EXCEPT !.pc = "rm_io", !.id = id, !.res = res]]
       /\ ret' = NoRet
  ELSE /\ Apply(st)
       /\ Return(p, pr, IF res = "deleted" THEN "notfound" ELSE res)

\* POST /sessions when initializeSession or waitForQRCode fails: the session
\* and its client are torn down (terminateSession, deleteSession) and the
\* error is rethrown.
createSessionFailed(p, pr, st, id, res) ==
  deleteSession(p, pr, terminateSession(st, id), id, res)

\* How a request goes on after one turn of waitForQRCode.
AfterWait(p, pr, out, st, id) ==
  IF out = "sleep"
  THEN /\ Apply(st)
       /\ procs' = [procs EXCEPT ![p] = [pr EXCEPT !.pc = "wait"]]
       /\ ret' = NoRet
  ELSE IF out = "ok"
  THEN /\ Apply(st)
       /\ Return(p, pr, "ok")
  ELSE IF p = Creator
  THEN createSessionFailed(p, pr, st, id, out)
  ELSE /\ Apply(st)
       /\ Return(p, pr, out)

\* A request starts initializeSession: a client is constructed, the status is
\* connecting, and the request waits for the metadata to be written.
StartInitialize(p, pr, st, id, why) ==
  LET hn == numHandles + 1
      st1 == initializeSession(st, id, hn, why)
  IN /\ Apply(st1)
     /\ numHandles' = hn
     /\ procs' = [procs EXCEPT ![p] = [pr EXCEPT !.pc = "init_io", !.id = id, !.h = hn,
                                                  !.rec = SessionDataOf(st1.sessions[id], now)]]
     /\ ret' = NoRet

\* createSession if it put the new record in the Registry before it looked
\* for the id.
createSession_SetsFirst(sess, id, t) == MapSet(sess, id, NewSession(id, t))

\* SessionManager.createSession, the Registry it leaves: unchanged when the id
\* is present (it throws SessionAlreadyExistsError), else with the new record.
createSession(sess, id, t) ==
  IF id \in DOMAIN sess THEN sess ELSE MapSet(sess, id, NewSession(id, t))

\* POST /sessions: sessionManager.createSession(id) up to its await.
CreateStart(id) ==
  /\ procs[Creator].pc = "idle"
  /\ numHandles < quota.handles
  /\ sessions' = createSession(sessions, id, now)
  /\ IF id \in DOMAIN sessions
     THEN Return(Creator, procs[Creator], "exists")
     ELSE /\ procs' = [procs EXCEPT ![Creator] =
                         [@ EXCEPT !.pc = "cs_io", !.id = id,
                                   !.rec = SessionDataOf(NewSession(id, now), now)]]
          /\ ret' = NoRet
  /\ UNCHANGED <<now, env, clients, metadataFile, authDirs, numHandles, hs, cb, qrSeq, numDeletes>>

\* POST /sessions: createSession's metadata is written, and the handler calls
\* initializeSession, which throws when the session has been deleted meanwhile.
CreatePersisted(id) ==
  /\ procs[Creator].pc = "cs_io"
  /\ procs[Creator].id = id
  /\ metadataFile' = saveSessionMetadata(metadataFile, procs[Creator].rec)
  /\ IF id \in DOMAIN sessions
     THEN StartInitialize(Creator, procs[Creator], Cur, id, <<"create">>)
     ELSE /\ createSessionFailed(Creator, procs[Creator], Cur, id, "notfound")
          /\ UNCHANGED numHandles
  /\ UNCHANGED <<now, env, authDirs, qrSeq, numDeletes>>

\* GET /sessions/:id: whatsappService.refreshQRCode(id) up to its first await
\* that needs the event loop.
RefreshStart(p, id) ==
  /\ p \in Readers
  /\ procs[p].pc = "idle"
  /\ \A q \in Readers : q[2] < p[2] => procs[q].pc # "idle"
  /\ IF id \notin DOMAIN sessions
     THEN /\ Return(p, procs[p], "notfound")
          /\ UNCHANGED <<sessions, clients, hs, cb, numHandles>>
     ELSE IF RefreshIsNoop(sessions[id], now)
     THEN /\ Return(p, procs[p], "ok")
          /\ UNCHANGED <<sessions, clients, hs, cb, numHandles>>
     ELSE /\ numHandles + (IF procs[Creator].pc = "cs_io" THEN 1 ELSE 0) < quota.handles
          /\ StartInitialize(p, procs[p], refreshDisconnect(Cur, id), id,
                             <<"refresh", sessions[id].qrCode, sessions[id].qrExpiresAt>>)
  /\ UNCHANGED <<now, env, metadataFile, authDirs, qrSeq, numDeletes>>

\* initializeSession goes on once the metadata is written: client.connect().
\* The mock's connect() returns at once, so clients.set(id, client) follows and
\* the caller's waitForQRCode takes its first turn; the Baileys client's
\* connect() awaits its auth state.
InitPersisted(p) ==
  /\ procs[p].pc = "init_io"
  /\ LET pr == procs[p]
         id == pr.id
         st == connect(Cur, pr.h)
         st2 == [st EXCEPT !.clients = MapSet(@, id, pr.h)]
     IN /\ metadataFile' = saveSessionMetadata(metadataFile, pr.rec)
        /\ IF useMock
           THEN AfterWait(p, [pr EXCEPT !.start = now],
                          WaitOutcome(st2.sessions, id, now, TimeoutOf(p), now), st2, id)
           ELSE /\ Apply(st)
                /\ procs' = [procs EXCEPT ![p].pc = "auth_io"]
                /\ ret' = NoRet
  /\ UNCHANGED <<now, env, authDirs, numHandles, qrSeq, numDeletes>>

\* BaileysClient.connect() goes on once useMultiFileAuthState has returned:
\* the socket is made, clients.set(id, client), and the caller's waitForQRCode
\* takes its first turn.  When connect() throws, initializeSession rethrows.
ConnectDone(p, ok) ==
  /\ procs[p].pc = "auth_io"
  /\ LET pr == procs[p]
         id == pr.id
         st2 == [makeWASocket(Cur, pr.h) EXCEPT !.clients = MapSet(@, id, pr.h)]
     IN IF ok
        THEN /\ AfterWait(p, [pr EXCEPT !.start = now],
                          WaitOutcome(st2.sessions, id, now, TimeoutOf(p), now), st2, id)
             /\ authDirs' = authDirs \cup {id}
        ELSE /\ IF p = Creator
                THEN createSessionFailed(p, pr, Cur, id, "error")
                ELSE Apply(Cur) /\ Return(p, pr, "error")
             /\ UNCHANGED authDirs
  /\ UNCHANGED <<now, env, metadataFile, numHandles, qrSeq, numDeletes>>

\* waitForQRCode wakes from its 100 ms sleep and takes another turn.
Poll(p) ==
  /\ procs[p].pc = "wait"
  /\ AfterWait(p, procs[p],
               WaitOutcome(sessions, procs[p].id, procs[p].start, TimeoutOf(p), now),
               Cur, procs[p].id)
  /\ UNCHANGED <<now, env, metadataFile, authDirs, numHandles, qrSeq, numDeletes>>

\* DELETE /sessions/:id: terminateSession(id), then deleteSession(id).
DeleteStart(id) ==
  /\ procs[Deleter].pc = "idle"
  /\ id \in DOMAIN sessions => numDeletes < quota.deletes
  /\ numDeletes' = IF id \in DOMAIN sessions THEN numDeletes + 1 ELSE numDeletes
  /\ deleteSession(Deleter, procs[Deleter], terminateSession(Cur, id), id, "deleted")
  /\ UNCHANGED <<now, env, metadataFile, authDirs, numHandles, qrSeq>>

\* deleteSession: removeSessionMetadata has written the file; deleteSessionAuth starts.
RemoveWritten(p) ==
  /\ procs[p].pc = "rm_io"
  /\ metadataFile' = removeSessionMetadata(metadataFile, procs[p].id)
  /\ procs' = [procs EXCEPT ![p].pc = "rm_auth"]
  /\ ret' = NoRet
  /\ UNCHANGED <<now, env, sessions, clients, authDirs, numHandles, hs, cb, qrSeq, numDeletes>>

\* deleteSession: deleteSessionAuth has removed the auth directory; it returns true.
AuthRemoved(p) ==
  /\ procs[p].pc = "rm_auth"
  /\ authDirs' = authDirs \ {procs[p].id}
  /\ Return(p, procs[p], procs[p].res)
  /\ UNCHANGED <<now, env, sessions, clients, metadataFile, numHandles, hs, cb, qrSeq, numDeletes>>

\* ----------------------------------------------------- transport events
\* QRCode.toDataURL(data): the PNG data URL of a QR code.
QRImage(data) == <<"png", data>>

\* MockWhatsAppClient: the timer "Simulate QR generation after 100ms" fires
\* and awaits the image of `mock-qr-${sessionId}-${Date.now()}`.
MockQrTimer(h) ==
  /\ useMock
  /\ h \in 1..numHandles
  /\ hs[h].qrDue # NoTime
  /\ hs[h].qrDue <= now
  /\ cb[h].qr.st = "none"
  /\ hs' = [hs EXCEPT ![h].qrDue = NoTime]
  /\ cb' = [cb EXCEPT ![h].qr = [NoTask EXCEPT !.st = "mock", !.tok = <<"mock-qr", hs[h].sid, now>>]]
  /\ ret' = NoRet
  /\ UNCHANGED <<now, env, sessions, clients, metadataFile, authDirs, numHandles, procs, qrSeq, numDeletes>>

\* MockWhatsAppClient: the image is ready and the QR callback is called with
\* it, or with 'mock-qr-code-data-for-testing' when toDataURL failed.
MockQrImage(h, ok) ==
  /\ h \in 1..numHandles
  /\ cb[h].qr.st = "mock"
  /\ Apply(onQR(Cur, h, IF ok THEN QRImage(cb[h].qr.tok) ELSE <<"mock-qr-code-data-for-testing">>))
  /\ ret' = NoRet
  /\ UNCHANGED <<now, env, metadataFile, authDirs, numHandles, procs, qrSeq, numDeletes>>

\* MockWhatsAppClient: the timer "Simulate connection after 2 seconds" fires.
MockConnectTimer(h) ==
  /\ useMock
  /\ h \in 1..numHandles
  /\ hs[h].connDue # NoTime
  /\ hs[h].connDue <= now
  /\ cb[h].cn.st = "none"
  /\ Apply(onConnected([Cur EXCEPT !.hs[h].connDue = NoTime, !.hs[h].conn = "open"], h, MockInfo))
  /\ ret' = NoRet
  /\ UNCHANGED <<now, env, metadataFile, authDirs, numHandles, procs, qrSeq, numDeletes>>

\* BaileysClient: connection.update with a qr.
SocketQr(h) ==
  /\ ~useMock
  /\ h \in 1..numHandles
  /\ hs[h].sock = "live"
  /\ hs[h].conn = "connecting"
  /\ cb[h].qr.st = "none"
  /\ qrSeq < quota.qrs
  /\ qrSeq' = qrSeq + 1
  /\ Apply(onQR(Cur, h, <<"2@", qrSeq + 1>>))
  /\ ret' = NoRet
  /\ UNCHANGED <<now, env, metadataFile, authDirs, numHandles, procs, numDeletes>>

\* BaileysClient: connection.update with connection === 'open'.
SocketOpen(h) ==
  /\ ~useMock
  /\ h \in 1..numHandles
  /\ hs[h].sock = "live"
  /\ hs[h].conn = "connecting"
  /\ cb[h].cn.st = "none"
  /\ Apply(onConnected([Cur EXCEPT !.hs[h].conn = "open"], h, user))
  /\ ret' = NoRet
  /\ UNCHANGED <<now, env, metadataFile, authDirs, numHandles, procs, qrSeq, numDeletes>>

\* BaileysClient: connection.update with connection === 'close'; the socket
\* reports nothing after it.
SocketClose(h) ==
  /\ ~useMock
  /\ h \in 1..numHandles
  /\ hs[h].sock = "live"
  /\ cb[h].dc.st = "none"
  /\ Apply(onDisconnected([Cur EXCEPT !.hs[h].conn = "closed", !.hs[h].sock = "closed"], h))
  /\ ret' = NoRet
  /\ UNCHANGED <<now, env, metadataFile, authDirs, numHandles, procs, qrSeq, numDeletes>>

\* ------------------------------------------------- callbacks, continued
\* client.onQR handler after QRCode.toDataURL: the image, or the raw data when
\* it failed; then updateSession, whose rejection is caught and logged.
QrImageDone(h, ok) ==
  /\ h \in 1..numHandles
  /\ cb[h].qr.st = "img"
  /\ Apply(HandlerUpdate(Cur, h, "qr", OnQRUpdates(IF ok THEN QRImage(cb[h].qr.tok) ELSE cb[h].qr.tok, now)))
  /\ ret' = NoRet
  /\ UNCHANGED <<now, env, metadataFile, authDirs, numHandles, procs, qrSeq, numDeletes>>

\* client.onQR handler: the metadata of its updateSession is written.
QrPersisted(h) ==
  /\ h \in 1..numHandles
  /\ cb[h].qr.st = "io"
  /\ metadataFile' = saveSessionMetadata(metadataFile, cb[h].qr.rec)
  /\ cb' = [cb EXCEPT ![h].qr = NoTask]
  /\ ret' = NoRet
  /\ UNCHANGED <<now, env, sessions, clients, authDirs, numHandles, hs, procs, qrSeq, numDeletes>>

\* client.onConnected handler: the metadata of its updateSession is written,
\* and it calls webhookAdapter.sendEvent(session.connected), its last statement.
ConnPersisted(h) ==
  /\ h \in 1..numHandles
  /\ cb[h].cn.st = "io"
  /\ metadataFile' = saveSessionMetadata(metadataFile, cb[h].cn.rec)
  /\ cb' = [cb EXCEPT ![h].cn = NoTask]
  /\ ret' = NoRet
  /\ UNCHANGED <<now, env, sessions, clients, authDirs, numHandles, hs, procs, qrSeq, numDeletes>>

\* client.onDisconnected handler: the metadata of its updateSession is
\* written; when the session is in the Registry the handler awaits
\* sendEvent(session.disconnected), otherwise it goes straight on to
\* this.clients.delete(sessionId).
DiscPersisted(h) ==
  /\ h \in 1..numHandles
  /\ cb[h].dc.st = "io"
  /\ metadataFile' = saveSessionMetadata(metadataFile, cb[h].dc.rec)
  /\ IF hs[h].sid \in DOMAIN sessions
     THEN /\ cb' = [cb EXCEPT ![h].dc = [NoTask EXCEPT !.st = "emit"]]
          /\ UNCHANGED clients
     ELSE /\ cb' = [cb EXCEPT ![h].dc = NoTask]
          /\ clients' = MapDelete(clients, hs[h].sid)
  /\ ret' = NoRet
  /\ UNCHANGED <<now, env, sessions, authDirs, numHandles, hs, procs, qrSeq, numDeletes>>

\* client.onDisconnected handler: sendEvent has returned, "Remove client from
\* map on disconnect".
DiscEmitted(h) ==
  /\ h \in 1..numHandles
  /\ cb[h].dc.st = "emit"
  /\ cb' = [cb EXCEPT ![h].dc = NoTask]
  /\ clients' = MapDelete(clients, hs[h].sid)
  /\ ret' = NoRet
  /\ UNCHANGED <<now, env, sessions, metadataFile, authDirs, numHandles, hs, procs, qrSeq, numDeletes>>

\* --------------------------------------------------------------- startup
\* startServer: sessionManager.initialize(), then whatsappService.initialize(),
\* then app.listen.  No request arrives before the server listens, and no
\* client exists before whatsappService.initialize(), so the steps of
\* loadPersistedSessions run alone; the events of the clients constructed for
\* the first sessions interleave with the initialization of the next ones.

\* new Date(isoString)
FromISOString(iso) == iso[2]

\* loadPersistedSessions if it restored connectedAt into createdAt too.
RestoredSession_OneDate(data) ==
  [id |-> data.id, status |-> "disconnected", phoneNumber |-> data.phoneNumber,
   name |-> data.name,
   createdAt |-> IF data.connectedAt = NoIso THEN FromISOString(data.createdAt)
                 ELSE FromISOString(data.connectedAt),
   connectedAt |-> IF data.connectedAt = NoIso THEN NoTime ELSE FromISOString(data.connectedAt),
   qrCode |-> NoQr, qrExpiresAt |-> NoTime]

\* loadPersistedSessions: the Session restored from a SessionData.
RestoredSession(data) ==
  [id |-> data.id, status |-> "disconnected", phoneNumber |-> data.phoneNumber,
   name |-> data.name, createdAt |-> FromISOString(data.createdAt),
   connectedAt |-> IF data.connectedAt = NoIso THEN NoTime ELSE FromISOString(data.connectedAt),
   qrCode |-> NoQr, qrExpiresAt |-> NoTime]

\* The records of a metadata file in the order of the file (Object.values).
RECURSIVE RecordsFrom(_, _)
RecordsFrom(metadata, i) ==
  IF i > Len(PersistedOrder) THEN <<>>
  ELSE (IF PersistedOrder[i] \in DOMAIN metadata THEN <<metadata[PersistedOrder[i]]>> ELSE <<>>)
         \o RecordsFrom(metadata, i + 1)

\* sessionManager.initialize(): persistenceAdapter.initialize(), then
\* loadPersistedSessions up to `await getAllSessions()`, which reads the file.
BootLoad ==
  /\ boot.pc = "start"
  /\ LET list == RecordsFrom(metadataFile, 1)
     IN boot' = [boot EXCEPT !.list = list, !.i = 1,
                             !.pc = IF list = <<>> THEN "loaded" ELSE "recover"]
  /\ ret' = NoRet
  /\ UNCHANGED <<now, useMock, user, quota, wh, auth, msgs, sessions, clients, metadataFile, authDirs,
                 numHandles, hs, cb, procs, qrSeq, numDeletes>>

\* loadPersistedSessions, one turn of its loop: the record is restored into
\* the Registry when its auth directory exists, else its metadata is removed.
BootRecover ==
  /\ boot.pc = "recover"
  /\ LET data == boot.list[boot.i]
         hasAuth == data.id \in authDirs
     IN /\ IF hasAuth
           THEN /\ sessions' = MapSet(sessions, data.id, RestoredSession(data))
                /\ UNCHANGED metadataFile
           ELSE /\ metadataFile' = removeSessionMetadata(metadataFile, data.id)
                /\ UNCHANGED sessions
        /\ boot' = [boot EXCEPT !.i = @ + 1,
                                !.todo = IF hasAuth THEN Append(@, data.id) ELSE @,
                                !.pc = IF boot.i = Len(boot.list) THEN "loaded" ELSE "recover"]
  /\ ret' = NoRet
  /\ UNCHANGED <<now, useMock, user, quota, wh, auth, msgs, clients, authDirs, numHandles, hs, cb, procs,
                 qrSeq, numDeletes>>

\* whatsappService.initialize(), one turn of its loop: initializeSession of the
\* next session of getAllSessions() up to the await of its updateSession.  The
\* status it tests is that of the list it took, where every session is
\* 'disconnected'.  After the last session startServer goes on to app.listen.
BootInitialize ==
  /\ boot.pc \in {"loaded", "next"}
  /\ IF boot.todo = <<>>
     THEN /\ boot' = [BootDone EXCEPT !.failed = boot.failed]
          /\ ret' = [NoRet EXCEPT !.res = "listening"]
          /\ UNCHANGED <<sessions, clients, hs, cb, numHandles>>
     ELSE LET id == Head(boot.todo)
              hn == numHandles + 1
              st1 == initializeSession(Cur, id, hn, <<"startup">>)
          IN /\ Apply(st1)
             /\ numHandles' = hn
             /\ boot' = [boot EXCEPT !.pc = "init_io", !.h = hn,
                                     !.rec = SessionDataOf(st1.sessions[id], now)]
             /\ ret' = NoRet
  /\ UNCHANGED <<now, useMock, user, quota, wh, auth, msgs, metadataFile, authDirs, procs, qrSeq, numDeletes>>

\* whatsappService.initialize() if an error of initializeSession ended its loop.
BootGoesOn_Aborts(b, id, ok) ==
  [b EXCEPT !.pc = "next", !.todo = IF ok THEN Tail(@) ELSE <<>>, !.h = NoHandle,
            !.rec = NoRec, !.failed = IF ok THEN @ ELSE @ \cup {id}]

\* whatsappService.initialize() after a session's initializeSession has ended,
\* normally or with an error that it catches and logs: it goes on with the
\* next session.
BootGoesOn(b, id, ok) ==
  [b EXCEPT !.pc = "next", !.todo = Tail(@), !.h = NoHandle, !.rec = NoRec,
            !.failed = IF ok THEN @ ELSE @ \cup {id}]

\* initializeSession once its metadata is written: client.connect(); the
\* mock's returns at once and clients.set(id, client) follows.
BootInitPersisted ==
  /\ boot.pc = "init_io"
  /\ LET id == Head(boot.todo)
         st == connect(Cur, boot.h)
     IN /\ metadataFile' = saveSessionMetadata(metadataFile, boot.rec)
        /\ IF useMock
           THEN /\ Apply([st EXCEPT !.clients = MapSet(@, id, boot.h)])
                /\ boot' = BootGoesOn(boot, id, TRUE)
           ELSE /\ Apply(st)
                /\ boot' = [boot EXCEPT !.pc = "auth_io"]
  /\ ret' = NoRet
  /\ UNCHANGED <<now, useMock, user, quota, wh, auth, msgs, authDirs, numHandles, procs, qrSeq, numDeletes>>

\* BaileysClient.connect() once useMultiFileAuthState has returned: the socket
\* is made and clients.set(id, client) follows; or connect() throws.
BootConnectDone(ok) ==
  /\ boot.pc = "auth_io"
  /\ LET id == Head(boot.todo)
     IN /\ IF ok
           THEN Apply([makeWASocket(Cur, boot.h) EXCEPT !.clients = MapSet(@, id, boot.h)])
           ELSE Apply(Cur)
        /\ boot' = BootGoesOn(boot, id, ok)
  /\ ret' = NoRet
  /\ UNCHANGED <<now, useMock, user, quota, wh, auth, msgs, metadataFile, authDirs, numHandles, procs,
                 qrSeq, numDeletes>>

\* ------------------------------------------------------- event delivery
\* A call of sendEvent has returned (or thrown) in the step just taken: what
\* became of its event, the attempts it made, and when the last one failed.
WebhookRet(s, res, call) ==
  [p |-> <<"webhook", s>>, res |-> res, h |-> NoHandle, start |-> NoTime, n |-> call.n,
   attempts |-> call.attempt, failAt |-> call.failAt]

\* webhookAdapter.sendEvent(event) up to its first await: the event is stored;
\* delivery is disabled or unconfigured, or the first axios.post starts, or
\* the loop makes no turn (retryAttempts < 1).
WebhookSend(s) ==
  /\ s \in 1..NumSenders
  /\ wh.calls[s].st = "idle"
  /\ \A q \in 1..(s - 1) : wh.calls[q].st # "idle"
  /\ wh.numEvents < MaxEvents
  /\ LET n == wh.numEvents + 1
         w1 == [wh EXCEPT !.numEvents = n,
                          !.events = storeWebhookEvent(@, wh.eventIdCounter, EventNo(n), now),
                          !.eventIdCounter = @ + 1]
         call == [NoCall EXCEPT !.n = n]
     IN IF ~Deliverable(wh)
        THEN /\ wh' = w1
             /\ ret' = WebhookRet(s, "noop", call)
        ELSE IF wh.retryAttempts < 1
        THEN /\ wh' = w1
             /\ ret' = WebhookRet(s, AllAttemptsFailed, call)
        ELSE /\ wh' = [w1 EXCEPT !.posts = @ + 1,
                                 !.calls[s] = [call EXCEPT !.st = "post", !.attempt = 1,
                                                           !.postAt = now]]
             /\ ret' = NoRet
  /\ UNCHANGED <<now, useMock, user, quota, boot, auth, msgs, sessions, clients, metadataFile, authDirs,
                 numHandles, hs, cb, procs, qrSeq, numDeletes>>

\* sendEvent: axios.post has resolved, or rejected (an error status, a network
\* error, the timeout of 10 s).
WebhookPostDone(s, ok) ==
  /\ s \in 1..NumSenders
  /\ wh.calls[s].st = "post"
  /\ LET call == wh.calls[s]
         failed == [call EXCEPT !.failAt = now]
     IN IF ok
        THEN /\ now < call.postAt + PostTimeoutMs
             /\ wh' = [wh EXCEPT !.calls[s] = NoCall]
             /\ ret' = WebhookRet(s, "delivered", call)
        ELSE /\ wh.fails < MaxFailures
             /\ IF call.attempt < wh.retryAttempts
                THEN /\ wh' = [wh EXCEPT !.fails = @ + 1,
                                         !.calls[s] = [failed EXCEPT !.st = "sleep",
                                                          !.due = now + DelayAfter(call.attempt)]]
                     /\ ret' = NoRet
                ELSE /\ wh' = [wh EXCEPT !.fails = @ + 1, !.calls[s] = NoCall]
                     /\ ret' = WebhookRet(s, AllAttemptsFailed, failed)
  /\ UNCHANGED <<now, useMock, user, quota, boot, auth, msgs, sessions, clients, metadataFile, authDirs,
                 numHandles, hs, cb, procs, qrSeq, numDeletes>>

\* sendEvent: the delay is over and the next axios.post starts.
WebhookRetry(s) ==
  /\ s \in DOMAIN wh.calls
  /\ wh.calls[s].st = "sleep"
  /\ wh.calls[s].due <= now
  /\ wh' = [wh EXCEPT !.posts = @ + 1,
                      !.calls[s] = [@ EXCEPT !.st = "post", !.attempt = @ + 1,
                                             !.postAt = now, !.due = NoTime]]
  /\ ret' = NoRet
  /\ UNCHANGED <<now, useMock, user, quota, boot, auth, msgs, sessions, clients, metadataFile, authDirs,
                 numHandles, hs, cb, procs, qrSeq, numDeletes>>

\* ----------------------------------------------- events of the transport
\* The status codes a messages.update carries (proto WebMessageInfo.Status).
StatusCodes == 2..4

\* client.onMessageStatusUpdate handler if it mapped 3 to read and 4 to
\* delivered.
StatusEventType_Swapped(status) ==
  IF status = 3 THEN "message.read"
  ELSE IF status = 4 THEN "message.delivered"
  ELSE "message.sent"

\* client.onMessageStatusUpdate handler: eventType is 'message.sent', then
\* 'message.delivered' if status === 3, then 'message.read' if status === 4.
StatusEventType(status) ==
  IF status = 4 THEN "message.read"
  ELSE IF status = 3 THEN "message.delivered"
  ELSE "message.sent"

\* `session.phoneNumber || sessionId` if it were the phoneNumber alone.
Origin_NoFallback(session) == session.phoneNumber

\* `session.phoneNumber || sessionId`
Origin(session) ==
  IF session.phoneNumber \in {Undef, ""} THEN session.id ELSE session.phoneNumber

\* A WebhookEvent, and none.
Envelope(sid, origin, eventType, data, t) ==
  [sessionId |-> sid, origin |-> origin, eventType |-> eventType, timestamp |-> t,
   data |-> data]

NoEvent == Envelope("", "", "none", <<>>, NoTime)

\* A handler of the client h has run in the step just taken: kind is the
\* callback, ev the event it handed to sendEvent, code the status code of a
\* status update.
EventRet(h, kind, ev, code) ==
  [p |-> <<"event", h>>, res |-> kind, h |-> h, start |-> NoTime, ev |-> ev, code |-> code]

\* sendEvent suspends its caller when it starts a delivery.
Awaits(w) == Deliverable(w) /\ w.retryAttempts >= 1

\* The slot the next call of sendEvent takes.
FreeSlot ==
  CHOOSE s \in DOMAIN wh.calls \cup {0} :
     \/ s = 0 /\ \A q \in DOMAIN wh.calls : wh.calls[q].st # "idle"
     \/ s # 0 /\ wh.calls[s].st = "idle" /\ \A q \in 1..(s - 1) : wh.calls[q].st # "idle"

\* webhookAdapter.sendEvent(event) up to its first await, in slot s: the event
\* is stored and, unless delivery is disabled, unconfigured or without
\* attempts, the first axios.post starts.
sendEvent(w, s, event, t) ==
  LET w1 == [w EXCEPT !.numEvents = @ + 1,
                      !.events = storeWebhookEvent(@, w.eventIdCounter, event, t),
                      !.eventIdCounter = @ + 1]
  IN IF Awaits(w)
     THEN [w1 EXCEPT !.posts = @ + 1,
                     !.calls[s] = [NoCall EXCEPT !.st = "post", !.n = w1.numEvents,
                                                 !.attempt = 1, !.postAt = t]]
     ELSE w1

\* client.onConnected handler: the metadata of its updateSession is written
\* and it awaits webhookAdapter.sendEvent(session.connected), with
\* `origin: info.phoneNumber`; nothing follows.
EvConnPersisted(h) ==
  /\ h \in 1..numHandles
  /\ cb[h].cn.st = "io"
  /\ Awaits(wh) => FreeSlot # 0
  /\ metadataFile' = saveSessionMetadata(metadataFile, cb[h].cn.rec)
  /\ cb' = [cb EXCEPT ![h].cn = NoTask]
  /\ LET ev == Envelope(hs[h].sid, user.phoneNumber, "session.connected",
                        <<user.phoneNumber, user.name>>, now)
     IN /\ wh' = sendEvent(wh, FreeSlot, ev, now)
        /\ ret' = EventRet(h, "connected", ev, 0)
  /\ UNCHANGED <<now, useMock, user, quota, boot, auth, msgs, sessions, clients, authDirs,
                 numHandles, hs, procs, qrSeq, numDeletes>>

\* client.onDisconnected handler: the metadata of its updateSession is
\* written; when the session is in the Registry it awaits
\* sendEvent(session.disconnected) and only then goes on to
\* this.clients.delete(sessionId); a sendEvent that makes no delivery returns
\* at once and the handler goes on in the same turn.
EvDiscPersisted(h) ==
  /\ h \in 1..numHandles
  /\ cb[h].dc.st = "io"
  /\ metadataFile' = saveSessionMetadata(metadataFile, cb[h].dc.rec)
  /\ LET sid == hs[h].sid IN
     IF sid \in DOMAIN sessions
     THEN LET ev == Envelope(sid, Origin(sessions[sid]), "session.disconnected",
                             <<"reason">>, now)
          IN /\ Awaits(wh) => FreeSlot # 0
             /\ wh' = sendEvent(wh, FreeSlot, ev, now)
             /\ ret' = EventRet(h, "disconnected", ev, 0)
             /\ IF Awaits(wh)
                THEN /\ cb' = [cb EXCEPT ![h].dc = [NoTask EXCEPT !.st = "emit",
                                                                  !.tok = <<"call", FreeSlot>>]]
                     /\ UNCHANGED clients
                ELSE /\ cb' = [cb EXCEPT ![h].dc = NoTask]
                     /\ clients' = MapDelete(clients, sid)
     ELSE /\ ret' = EventRet(h, "disconnected", NoEvent, 0)
          /\ cb' = [cb EXCEPT ![h].dc = NoTask]
          /\ clients' = MapDelete(clients, sid)
          /\ UNCHANGED wh
  /\ UNCHANGED <<now, useMock, user, quota, boot, auth, msgs, sessions, authDirs, numHandles,
                 hs, procs, qrSeq, numDeletes>>

\* sendEvent in slot s: axios.post has resolved or rejected.  When the call
\* returns, a client.onDisconnected handler that awaited it goes on to
\* "Remove client from map on disconnect".  The endpoint answers in the
\* instant of the request, or the request fails then or at its timeout.
EvPostDone(s, ok) ==
  /\ s \in DOMAIN wh.calls
  /\ wh.calls[s].st = "post"
  /\ ok => now = wh.calls[s].postAt
  /\ ~ok => /\ wh.fails < MaxFailures
            /\ now \in {wh.calls[s].postAt, wh.calls[s].postAt + PostTimeoutMs}
  /\ LET call == wh.calls[s]
         failed == [call EXCEPT !.failAt = now]
         returns == ok \/ call.attempt >= wh.retryAttempts
         waiting == {h \in 1..numHandles : cb[h].dc.st = "emit" /\ cb[h].dc.tok = <<"call", s>>}
         gone == {hs[h].sid : h \in waiting}
     IN /\ wh' = IF ok THEN [wh EXCEPT !.calls[s] = NoCall]
                 ELSE IF returns THEN [wh EXCEPT !.fails = @ + 1, !.calls[s] = NoCall]
                 ELSE [wh EXCEPT !.fails = @ + 1,
                                 !.calls[s] = [failed EXCEPT !.st = "sleep",
                                                  !.due = now + DelayAfter(call.attempt)]]
        /\ ret' = IF ok THEN WebhookRet(s, "delivered", call)
                  ELSE IF returns THEN WebhookRet(s, AllAttemptsFailed, failed)
                  ELSE NoRet
        /\ cb' = [h \in DOMAIN cb |->
                    IF returns /\ h \in waiting THEN [cb[h] EXCEPT !.dc = NoTask] ELSE cb[h]]
        /\ clients' = IF returns
                      THEN [id \in DOMAIN clients \ gone |-> clients[id]]
                      ELSE clients
  /\ UNCHANGED <<now, useMock, user, quota, boot, auth, msgs, sessions, metadataFile, authDirs,
                 numHandles, hs, procs, qrSeq, numDeletes>>

\* The client h reports: its socket emits messages.upsert with a message of
\* another party, or the mock's simulateIncomingMessage is called.  The
\* client.onMessageReceived handler ends when the session is not in the
\* Registry and otherwise awaits sendEvent(message.received).
MessageReceived(h) ==
  /\ h \in 1..numHandles
  /\ useMock \/ hs[h].sock = "live"
  /\ wh.numEvents < MaxInbound
  /\ Awaits(wh) => FreeSlot # 0
  /\ LET sid == hs[h].sid IN
     IF sid \in DOMAIN sessions
     THEN LET ev == Envelope(sid, Origin(sessions[sid]), "message.received", <<"message">>, now)
          IN /\ wh' = sendEvent(wh, FreeSlot, ev, now)
             /\ ret' = EventRet(h, "message", ev, 0)
     ELSE /\ ret' = EventRet(h, "message", NoEvent, 0)
          /\ UNCHANGED wh
  /\ UNCHANGED <<now, useMock, user, quota, boot, auth, msgs, sessions, clients, metadataFile,
                 authDirs, numHandles, hs, cb, procs, qrSeq, numDeletes>>

\* The client h reports a messages.update, or the mock's
\* simulateMessageStatusUpdate is called, with a status code.
MessageStatusUpdate(h, status) ==
  /\ h \in 1..numHandles
  /\ useMock \/ hs[h].sock = "live"
  /\ wh.numEvents < MaxInbound
  /\ Awaits(wh) => FreeSlot # 0
  /\ LET sid == hs[h].sid IN
     IF sid \in DOMAIN sessions
     THEN LET ev == Envelope(sid, Origin(sessions[sid]), StatusEventType(status),
                             <<"messageId", status>>, now)
          IN /\ wh' = sendEvent(wh, FreeSlot, ev, now)
             /\ ret' = EventRet(h, "status", ev, status)
     ELSE /\ ret' = EventRet(h, "status", NoEvent, status)
          /\ UNCHANGED wh
  /\ UNCHANGED <<now, useMock, user, quota, boot, auth, msgs, sessions, clients, metadataFile,
                 authDirs, numHandles, hs, cb, procs, qrSeq, numDeletes>>

\* ------------------------------------------------------- sending messages
\* WhatsAppService.sendMessage if it did not look at the session's status.
sendMessageCheck_NoStatus(sess, cl, id) ==
  IF id \notin DOMAIN sess THEN "SessionNotFoundError"
  ELSE IF id \notin DOMAIN cl THEN "Client not initialized"
  ELSE "ok"

\* WhatsAppService.sendMessage up to its try: the error it throws, or "ok".
sendMessageCheck(sess, cl, id) ==
  IF id \notin DOMAIN sess THEN "SessionNotFoundError"
  ELSE IF sess[id].status # "connected" THEN "Session not connected"
  ELSE IF id \notin DOMAIN cl THEN "Client not initialized"
  ELSE "ok"

\* The status of the response of POST /sessions/:sessionId/messages.
messagesStatus(res) ==
  CASE res = "sent" -> 200
    [] res = "SessionNotFoundError" -> 404
    [] res = "Session not connected" -> 400
    [] OTHER -> 500

\* POST /sessions/:sessionId/messages has answered in the step just taken;
\* transport tells what became of the client's sendMessage, if it was called.
SendRet(res, id, transport) ==
  [p |-> <<"send", 0>>, res |-> res, h |-> NoHandle, start |-> NoTime, id |-> id,
   code |-> messagesStatus(res), transport |-> transport]

\* POST /sessions/:sessionId/messages with a valid body: sendMessage up to the
\* await inside client.sendMessage.  The mock throws unless its state is
\* 'open' and otherwise sleeps 100 ms; the Baileys client throws without a
\* socket and otherwise awaits socket.sendMessage.
SendStart(id) ==
  /\ msgs.st = "idle"
  /\ msgs.n < MaxSends
  /\ LET err == sendMessageCheck(sessions, clients, id)
         h == clients[id]
         m1 == [msgs EXCEPT !.n = @ + 1, !.id = id]
     IN IF err # "ok"
        THEN /\ msgs' = m1
             /\ ret' = SendRet(err, id, "none")
        ELSE IF (useMock /\ hs[h].conn # "open") \/ (~useMock /\ hs[h].sock = "none")
        THEN /\ msgs' = [m1 EXCEPT !.calls = @ + 1]
             /\ ret' = SendRet("Failed to send message", id, "failed")
        ELSE /\ msgs' = [m1 EXCEPT !.calls = @ + 1, !.st = "sending", !.h = h,
                                   !.due = IF useMock THEN now + MockSendDelayMs ELSE NoTime]
             /\ ret' = NoRet
  /\ UNCHANGED <<now, useMock, user, quota, boot, wh, auth, sessions, clients, metadataFile,
                 authDirs, numHandles, hs, cb, procs, qrSeq, numDeletes>>

\* client.sendMessage settles: the mock's sleep is over and it returns an id;
\* socket.sendMessage resolves or rejects.  sendMessage returns the response,
\* or throws 'Failed to send message'.
SendDone(ok) ==
  /\ msgs.st = "sending"
  /\ useMock => (ok /\ msgs.due <= now)
  /\ msgs' = [msgs EXCEPT !.st = "idle", !.h = NoHandle, !.due = NoTime]
  /\ ret' = IF ok THEN SendRet("sent", msgs.id, "ok")
                  ELSE SendRet("Failed to send message", msgs.id, "failed")
  /\ UNCHANGED <<now, useMock, user, quota, boot, wh, auth, sessions, clients, metadataFile,
                 authDirs, numHandles, hs, cb, procs, qrSeq, numDeletes>>

\* ------------------------------------------------------------------ time
\* The instants at which something is due: the mock's timers, the expiry of a
\* QR code, the end of a wait.
Deadlines ==
  {hs[h].qrDue : h \in 1..numHandles} \cup {hs[h].connDue : h \in 1..numHandles}
    \cup {sessions[id].qrExpiresAt : id \in DOMAIN sessions}
    \cup {procs[p].start + TimeoutOf(p) : p \in {q \in Procs : procs[q].pc = "wait"}}
    \cup {wh.calls[s].due : s \in DOMAIN wh.calls} \cup {msgs.due}
    \cup {wh.calls[s].postAt + PostTimeoutMs : s \in {q \in DOMAIN wh.calls : wh.calls[q].st = "post"}}

\* Work the event loop does without letting time pass: a timer that is due,
\* file I/O and the QR image, a wait whose time is up, a delivery attempt
\* whose timeout has passed.
Busy ==
  \/ \E h \in 1..numHandles :
       \/ hs[h].qrDue # NoTime /\ hs[h].qrDue <= now
       \/ hs[h].connDue # NoTime /\ hs[h].connDue <= now
       \/ \E kind \in {"qr", "cn", "dc"} : cb[h][kind].st \in {"mock", "img", "io"}
  \/ \E p \in Procs :
       \/ procs[p].pc \notin {"idle", "wait"}
       \/ procs[p].pc = "wait" /\ ~WaitGoesOn(procs[p].start, TimeoutOf(p), now)
  \/ boot.pc # "done"
  \/ \E s \in DOMAIN wh.calls :
       \/ wh.calls[s].st = "sleep" /\ wh.calls[s].due <= now
       \/ wh.calls[s].st = "post" /\ wh.calls[s].postAt + PostTimeoutMs <= now
  \/ msgs.st = "sending" /\ msgs.due # NoTime /\ msgs.due <= now

\* Time passes, up to the next instant at which something is due.
Tick ==
  /\ ~Busy
  /\ {d \in Deadlines : d > now} # {}
  /\ now' = Min({d \in Deadlines : d > now})
  /\ ret' = NoRet
  /\ UNCHANGED <<env, sessions, clients, metadataFile, authDirs, numHandles, hs, cb, procs, qrSeq, numDeletes>>

Next ==
  \/ \E id \in SessionIds : CreateStart(id)
  \/ \E id \in SessionIds : CreatePersisted(id)
  \/ \E p \in Readers, id \in SessionIds : RefreshStart(p, id)
  \/ \E p \in Procs : InitPersisted(p)
  \/ \E p \in Procs, ok \in BOOLEAN : ConnectDone(p, ok)
  \/ \E p \in Procs : Poll(p)
  \/ \E id \in SessionIds : DeleteStart(id)
  \/ \E p \in Procs : RemoveWritten(p)
  \/ \E p \in Procs : AuthRemoved(p)
  \/ \E h \in Handles : MockQrTimer(h)
  \/ \E h \in Handles, ok \in BOOLEAN : MockQrImage(h, ok)
  \/ \E h \in Handles : MockConnectTimer(h)
  \/ \E h \in Handles : SocketQr(h)
  \/ \E h \in Handles : SocketOpen(h)
  \/ \E h \in Handles : SocketClose(h)
  \/ \E h \in Handles : QrImageDone(h, TRUE)
  \/ \E h \in Handles : QrImageDone(h, FALSE)
  \/ \E h \in Handles : QrPersisted(h)
  \/ \E h \in Handles : ConnPersisted(h)
  \/ \E h \in Handles : DiscPersisted(h)
  \/ \E h \in Handles : DiscEmitted(h)
  \/ Tick

Spec == Init /\ [][Next]_vars

\* A session created once over Baileys, whose QR images render, and then read.
NextRefresh ==
  \/ \E id \in SessionIds : CreateStart(id)
  \/ \E id \in SessionIds : CreatePersisted(id)
  \/ \E p \in Readers, id \in SessionIds : RefreshStart(p, id)
  \/ \E p \in Procs : InitPersisted(p)
  \/ \E p \in Procs, ok \in BOOLEAN : ConnectDone(p, ok)
  \/ \E p \in Procs : Poll(p)
  \/ \E p \in Procs : RemoveWritten(p)
  \/ \E p \in Procs : AuthRemoved(p)
  \/ \E h \in Handles : SocketQr(h)
  \/ \E h \in Handles : SocketOpen(h)
  \/ \E h \in Handles : SocketClose(h)
  \/ \E h \in Handles : QrImageDone(h, TRUE)
  \/ \E h \in Handles : QrPersisted(h)
  \/ \E h \in Handles : ConnPersisted(h)
  \/ \E h \in Handles : DiscPersisted(h)
  \/ \E h \in Handles : DiscEmitted(h)
  \/ Tick

SpecRefresh == InitRefresh /\ [][NextRefresh]_vars

\* The transport answers a connect() that has not been answered: while the
\* session is still connecting or disconnected, the socket reports a QR code
\* or that it is open.
FirstEmission(h) ==
  /\ h \in 1..numHandles
  /\ hs[h].sid \in DOMAIN sessions
  /\ sessions[hs[h].sid].status \in {"connecting", "disconnected"}
  /\ (SocketQr(h) \/ SocketOpen(h))

\* The socket closes after it has reported a QR code or that it is open.
SocketCloseAfterEmission(h) ==
  /\ h \in 1..numHandles
  /\ (cb[h].qr.st # "none" \/ hs[h].conn = "open")
  /\ SocketClose(h)

\* The requests of SpecRefresh over a transport whose connect() returns and
\* whose socket reports something before it closes.
NextRefreshLive ==
  \/ \E id \in SessionIds : CreateStart(id)
  \/ \E id \in SessionIds : CreatePersisted(id)
  \/ \E p \in Readers, id \in SessionIds : RefreshStart(p, id)
  \/ \E p \in Procs : InitPersisted(p)
  \/ \E p \in Procs : ConnectDone(p, TRUE)
  \/ \E p \in Procs : Poll(p)
  \/ \E p \in Procs : RemoveWritten(p)
  \/ \E p \in Procs : AuthRemoved(p)
  \/ \E h \in Handles : SocketQr(h)
  \/ \E h \in Handles : SocketOpen(h)
  \/ \E h \in Handles : SocketCloseAfterEmission(h)
  \/ \E h \in Handles : QrImageDone(h, TRUE)
  \/ \E h \in Handles : QrPersisted(h)
  \/ \E h \in Handles : ConnPersisted(h)
  \/ \E h \in Handles : DiscPersisted(h)
  \/ \E h \in Handles : DiscEmitted(h)
  \/ Tick

\* What the event loop and the transport are bound to do: a write of the
\* metadata lands and initializeSession goes on to connect(), the auth state
\* loads, the QR image is rendered, and the socket answers a connect().
\* Requests, further reports of a socket and the passing of time are free.
FairRefresh ==
  /\ \A p \in Readers : WF_vars(InitPersisted(p)) /\ WF_vars(ConnectDone(p, TRUE))
  /\ \A h \in Handles : WF_vars(QrImageDone(h, TRUE)) /\ WF_vars(FirstEmission(h))

\* A session created once over Baileys and refreshed once.
InitRefreshLive ==
  /\ Started
  /\ useMock = FALSE
  /\ user = [phoneNumber |-> "5511999", name |-> "Ana"]
  /\ quota = [handles |-> MaxHandles, qrs |-> RefreshQr, deletes |-> 0]

SpecRefreshLive == InitRefreshLive /\ [][NextRefreshLive]_vars /\ FairRefresh

\* A metadata record that persistSessionMetadata has written for id: of a
\* session that had connected and then disconnected, or of one that never
\* connected.
PersistedRecord(id, connected) ==
  [id |-> id,
   phoneNumber |-> IF connected THEN "5511999" ELSE Undef,
   name |-> IF connected THEN "Ana" ELSE Undef,
   createdAt |-> ToISOString(1000),
   connectedAt |-> IF connected THEN ToISOString(2000) ELSE NoIso,
   lastDisconnectedAt |-> IF connected THEN ToISOString(3000) ELSE NoIso]

\* The metadata files a start may find: a record or none for each id.
PersistedFiles ==
  UNION {{f \in [D -> {PersistedRecord(id, c) : id \in D, c \in BOOLEAN}] :
             \A id \in D : f[id].id = id} : D \in SUBSET PersistedIds}

\* The process starts: a metadata file and auth directories of an earlier run.
InitStartup ==
  /\ now = 4000
  /\ boot = [BootDone EXCEPT !.pc = "start"]
  /\ wh = NewWebhook(FALSE, "", RetryAttemptsDefault)
  /\ auth = NoAuth
  /\ msgs = NoSend
  /\ useMock \in BOOLEAN
  /\ user = IF useMock THEN MockInfo ELSE [phoneNumber |-> "5511999", name |-> "Ana"]
  /\ quota = [handles |-> Len(PersistedOrder), qrs |-> StartupQr, deletes |-> 0]
  /\ metadataFile \in PersistedFiles
  /\ authDirs \in SUBSET PersistedIds
  /\ sessions = EmptyMap
  /\ clients = EmptyMap
  /\ numHandles = 0
  /\ hs = [h \in Handles |-> Unbuilt]
  /\ cb = [h \in Handles |-> NoCallbacks]
  /\ procs = [p \in Procs |-> IdleProc]
  /\ ret = NoRet
  /\ qrSeq = 0
  /\ numDeletes = 0

\* The startup, and what the clients it constructs report, up to app.listen
\* and after it while no request arrives.
NextStartup ==
  \/ BootLoad
  \/ BootRecover
  \/ BootInitialize
  \/ BootInitPersisted
  \/ \E ok \in BOOLEAN : BootConnectDone(ok)
  \/ \E h \in Handles : MockQrTimer(h)
  \/ \E h \in Handles, ok \in BOOLEAN : MockQrImage(h, ok)
  \/ \E h \in Handles : MockConnectTimer(h)
  \/ \E h \in Handles : SocketQr(h)
  \/ \E h \in Handles : SocketOpen(h)
  \/ \E h \in Handles : SocketClose(h)
  \/ \E h \in Handles : QrImageDone(h, TRUE)
  \/ \E h \in Handles : QrPersisted(h)
  \/ \E h \in Handles : ConnPersisted(h)
  \/ \E h \in Handles : DiscPersisted(h)
  \/ \E h \in Handles : DiscEmitted(h)
  \/ Tick

SpecStartup == InitStartup /\ [][NextStartup]_vars

\* The service has started and events are handed to the WebhookAdapter, which
\* was constructed from the configuration: ENABLE_WEBHOOK, WEBHOOK_URL,
\* WEBHOOK_RETRY_ATTEMPTS.
InitWebhook ==
  /\ now = 0
  /\ boot = BootDone
  /\ useMock = TRUE
  /\ user = MockInfo
  /\ quota = [handles |-> 0, qrs |-> 0, deletes |-> 0]
  /\ \E enabled \in BOOLEAN, url \in {"", "http://hook"}, attempts \in 0..RetryAttemptsDefault :
       wh = NewWebhook(enabled, url, attempts)
  /\ auth = NoAuth
  /\ msgs = NoSend
  /\ sessions = EmptyMap
  /\ clients = EmptyMap
  /\ metadataFile = EmptyMap
  /\ authDirs = {}
  /\ numHandles = 0
  /\ hs = [h \in Handles |-> Unbuilt]
  /\ cb = [h \in Handles |-> NoCallbacks]
  /\ procs = [p \in Procs |-> IdleProc]
  /\ ret = NoRet
  /\ qrSeq = 0
  /\ numDeletes = 0

NextWebhook ==
  \/ \E s \in 1..NumSenders : WebhookSend(s)
  \/ \E s \in 1..NumSenders, ok \in BOOLEAN : WebhookPostDone(s, ok)
  \/ \E s \in 1..NumSenders : WebhookRetry(s)
  \/ Tick

SpecWebhook == InitWebhook /\ [][NextWebhook]_vars

\* Sessions are created and deleted and their transports report, while
\* messages are sent.
NextSend ==
  \/ \E id \in SessionIds : CreateStart(id)
  \/ \E id \in SessionIds : CreatePersisted(id)
  \/ \E p \in Procs : InitPersisted(p)
  \/ \E p \in Procs : ConnectDone(p, TRUE)
  \/ \E p \in Procs : Poll(p)
  \/ \E id \in SessionIds : DeleteStart(id)
  \/ \E p \in Procs : RemoveWritten(p)
  \/ \E p \in Procs : AuthRemoved(p)
  \/ \E h \in Handles : MockQrTimer(h)
  \/ \E h \in Handles : MockQrImage(h, TRUE)
  \/ \E h \in Handles : MockConnectTimer(h)
  \/ \E h \in Handles : SocketQr(h)
  \/ \E h \in Handles : SocketOpen(h)
  \/ \E h \in Handles : SocketClose(h)
  \/ \E h \in Handles : QrImageDone(h, TRUE)
  \/ \E h \in Handles : QrPersisted(h)
  \/ \E h \in Handles : ConnPersisted(h)
  \/ \E h \in Handles : DiscPersisted(h)
  \/ \E h \in Handles : DiscEmitted(h)
  \/ \E id \in SessionIds : SendStart(id)
  \/ \E ok \in BOOLEAN : SendDone(ok)
  \/ Tick

InitSend ==
  /\ Started
  /\ useMock \in BOOLEAN
  /\ user \in IF useMock THEN {MockInfo} ELSE BaileysInfos
  /\ quota = [handles |-> SendHandles, qrs |-> MaxQr, deletes |-> MaxDeletes]

SpecSend == InitSend /\ [][NextSend]_vars

\* The service has started and restored the session s1, whose client is
\* connecting; delivery of events is configured or not.  The transport emits
\* up to qrs QR codes.
StartedEvents(qrs) ==
  /\ now = 4000
  /\ boot = BootDone
  /\ useMock \in BOOLEAN
  /\ user \in IF useMock THEN {MockInfo} ELSE BaileysInfos
  /\ quota = [handles |-> 1, qrs |-> qrs, deletes |-> MaxDeletes]
  /\ \E on \in BOOLEAN :
       wh = [NewWebhook(on, IF on THEN "http://hook" ELSE "", RetryAttemptsDefault)
               EXCEPT !.calls = [s \in 1..EventSlots |-> NoCall]]
  /\ auth = NoAuth
  /\ msgs = NoSend
  /\ \E connected \in BOOLEAN :
       LET rec == PersistedRecord("s1", connected)
           st0 == [sessions |-> [id \in {"s1"} |-> RestoredSession(rec)],
                   clients |-> EmptyMap,
                   hs |-> [h \in Handles |-> Unbuilt],
                   cb |-> [h \in Handles |-> NoCallbacks]]
           st1 == connect(initializeSession(st0, "s1", 1, <<"startup">>), 1)
           st2 == IF useMock THEN st1 ELSE makeWASocket(st1, 1)
       IN /\ sessions = st2.sessions
          /\ clients = [id \in {"s1"} |-> 1]
          /\ hs = st2.hs
          /\ cb = st2.cb
          /\ metadataFile = [id \in {"s1"} |-> SessionDataOf(st2.sessions["s1"], now)]
  /\ authDirs = {"s1"}
  /\ numHandles = 1
  /\ procs = [p \in Procs |-> IdleProc]
  /\ ret = NoRet
  /\ qrSeq = 0
  /\ numDeletes = 0

InitEvents == StartedEvents(MaxQr)

\* The connection of the session's client: what it reports, the lifecycle
\* handlers, the deliveries of the events they hand over, and a DELETE of the
\* session.
NextEvents ==
  \/ \E h \in Handles : MockQrTimer(h)
  \/ \E h \in Handles : MockQrImage(h, TRUE)
  \/ \E h \in Handles : MockConnectTimer(h)
  \/ \E h \in Handles : SocketQr(h)
  \/ \E h \in Handles : SocketOpen(h)
  \/ \E h \in Handles : SocketClose(h)
  \/ \E h \in Handles : QrImageDone(h, TRUE)
  \/ \E h \in Handles : QrPersisted(h)
  \/ \E h \in Handles : EvConnPersisted(h)
  \/ \E h \in Handles : EvDiscPersisted(h)
  \/ \E s \in 1..EventSlots, ok \in BOOLEAN : EvPostDone(s, ok)
  \/ \E s \in 1..EventSlots : WebhookRetry(s)
  \/ \E id \in SessionIds : DeleteStart(id)
  \/ \E p \in Procs : RemoveWritten(p)
  \/ \E p \in Procs : AuthRemoved(p)
  \/ Tick

SpecEvents == InitEvents /\ [][NextEvents]_vars

\* The same start with a transport that emits no QR code: a Baileys socket
\* with stored credentials opens, the mock client stays connecting.
InitMessages == StartedEvents(0)

\* The messages and status updates the client of the session reports (the
\* mock's simulate... calls at any time) while it connects and the session is
\* deleted.
NextMessages ==
  \/ \E h \in Handles : SocketOpen(h)
  \/ \E h \in Handles : EvConnPersisted(h)
  \/ \E h \in Handles : EvDiscPersisted(h)
  \/ \E s \in 1..EventSlots, ok \in BOOLEAN : EvPostDone(s, ok)
  \/ \E s \in 1..EventSlots : WebhookRetry(s)
  \/ \E h \in Handles : MessageReceived(h)
  \/ \E h \in Handles, status \in StatusCodes : MessageStatusUpdate(h, status)
  \/ \E id \in SessionIds : DeleteStart(id)
  \/ \E p \in Procs : RemoveWritten(p)
  \/ \E p \in Procs : AuthRemoved(p)
  \/ Tick

SpecMessages == InitMessages /\ [][NextMessages]_vars

\* ---------------------------------------------------------- authentication
\* The keys, header values and paths of the requests tried.
Key1 == <<"k", "1">>
Key2 == <<"k", "2">>
ApiKeys == {<<>>, Key1, Key2}
AuthorizationHeaders ==
  {<<>>, Bearer \o Key1, Bearer \o Key2, Bearer, Bearer \o <<" ">> \o Key1,
   <<"b", "e", "a", "r", "e", "r", " ">> \o Key1, <<"B", "a", "s", "i", "c", " ">> \o Key1, Key1}
XApiKeyHeaders == {<<>>, Key1, Key2}
RequestPaths == {"/", "/health", "/health/", "/sessions", "/sessions/s1", "/events"}

\* A request arrives: the application runs authMiddleware on it before any
\* route, with req.path the path of the request.
AuthRequest(path, authorization, xApiKey) ==
  /\ LET req == [path |-> path, authorization |-> authorization, xApiKey |-> xApiKey]
     IN auth' = [auth EXCEPT !.req = req, !.out = authMiddleware(auth.apiKey, req)]
  /\ ret' = NoRet
  /\ UNCHANGED <<now, useMock, user, quota, boot, wh, msgs, sessions, clients, metadataFile,
                 authDirs, numHandles, hs, cb, procs, qrSeq, numDeletes>>

InitAuth ==
  /\ now = 0
  /\ boot = BootDone
  /\ useMock = TRUE
  /\ user = MockInfo
  /\ quota = [handles |-> 0, qrs |-> 0, deletes |-> 0]
  /\ wh = NewWebhook(FALSE, "", RetryAttemptsDefault)
  /\ \E apiKey \in ApiKeys : auth = [NoAuth EXCEPT !.apiKey = apiKey]
  /\ msgs = NoSend
  /\ sessions = EmptyMap
  /\ clients = EmptyMap
  /\ metadataFile = EmptyMap
  /\ authDirs = {}
  /\ numHandles = 0
  /\ hs = [h \in Handles |-> Unbuilt]
  /\ cb = [h \in Handles |-> NoCallbacks]
  /\ procs = [p \in Procs |-> IdleProc]
  /\ ret = NoRet
  /\ qrSeq = 0
  /\ numDeletes = 0

NextAuth ==
  \E path \in RequestPaths, authorization \in AuthorizationHeaders, xApiKey \in XApiKeyHeaders :
     AuthRequest(path, authorization, xApiKey)

SpecAuth == InitAuth /\ [][NextAuth]_vars

\* ------------------------------------------------------ message validator
\* `!v` for an optional string: undefined or ''.
Falsy(v) == v \in {Undef, ""}

\* validateSendMessageRequest if it tested the coordinates with `!`.
validateSendMessageRequest_FalsyCoordinates(req) ==
  LET Throw(text) == [threw |-> text, message |-> <<>>]
      Message(fields) == [threw |-> "", message |-> [f \in fields |-> req[f]]]
  IN IF Falsy(req.to) THEN Throw("Recipient \"to\" is required")
     ELSE IF Falsy(req.type) THEN Throw("Message type is required")
     ELSE IF req.type = "text"
     THEN IF Falsy(req.text) THEN Throw("Text is required for text messages")
          ELSE Message({"to", "type", "text"})
     ELSE IF req.type \in {"image", "video", "audio", "document"}
     THEN IF Falsy(req.mediaUrl) /\ Falsy(req.mediaBase64)
          THEN Throw("Media URL or base64 is required")
          ELSE IF req.type = "document" /\ Falsy(req.fileName)
          THEN Throw("File name is required for documents")
          ELSE Message({"to", "type", "mediaUrl", "mediaBase64", "caption", "fileName"})
     ELSE IF req.type = "location"
     THEN IF req.latitude \in {<<>>, <<0>>} \/ req.longitude \in {<<>>, <<0>>}
          THEN Throw("Latitude and longitude are required for location messages")
          ELSE Message({"to", "type", "latitude", "longitude", "name", "address"})
     ELSE IF req.type = "contact"
     THEN IF Falsy(req.contactName) \/ Falsy(req.contactNumber)
          THEN Throw("Contact name and number are required for contact messages")
          ELSE Message({"to", "type", "contactName", "contactNumber"})
     ELSE Throw("Unknown message type")

\* validateSendMessageRequest(req): the Error it throws, or the Message it
\* returns.
validateSendMessageRequest(req) ==
  LET Throw(text) == [threw |-> text, message |-> <<>>]
      Message(fields) == [threw |-> "", message |-> [f \in fields |-> req[f]]]
  IN IF Falsy(req.to) THEN Throw("Recipient \"to\" is required")
     ELSE IF Falsy(req.type) THEN Throw("Message type is required")
     ELSE IF req.type = "text"
     THEN IF Falsy(req.text) THEN Throw("Text is required for text messages")
          ELSE Message({"to", "type", "text"})
     ELSE IF req.type \in {"image", "video", "audio", "document"}
     THEN IF Falsy(req.mediaUrl) /\ Falsy(req.mediaBase64)
          THEN Throw("Media URL or base64 is required")
          ELSE IF req.type = "document" /\ Falsy(req.fileName)
          THEN Throw("File name is required for documents")
          ELSE Message({"to", "type", "mediaUrl", "mediaBase64", "caption", "fileName"})
     ELSE IF req.type = "location"
     THEN IF req.latitude = <<>> \/ req.longitude = <<>>
          THEN Throw("Latitude and longitude are required for location messages")
          ELSE Message({"to", "type", "latitude", "longitude", "name", "address"})
     ELSE IF req.type = "contact"
     THEN IF Falsy(req.contactName) \/ Falsy(req.contactNumber)
          THEN Throw("Contact name and number are required for contact messages")
          ELSE Message({"to", "type", "contactName", "contactNumber"})
     ELSE Throw("Unknown message type")

\* The bodies of POST /sessions/:sessionId/messages: a text field is absent,
\* empty or set; a coordinate is <<>> when absent and <<n>> for the number n.
SendMessageRequests ==
  [to : {Undef, "", "9876543210"},
   type : {Undef, "", "text", "image", "video", "audio", "document", "location", "contact",
           "sticker"},
   text : {Undef, "", "Hello"},
   mediaUrl : {Undef, "https://example.com/doc.pdf"},
   mediaBase64 : {Undef, "base64data"},
   caption : {Undef, "caption"},
   fileName : {Undef, "", "doc.pdf"},
   latitude : {<<>>, <<0>>, <<5>>},
   longitude : {<<>>, <<0>>},
   name : {Undef, "place"},
   address : {Undef},
   contactName : {Undef, "", "Test"},
   contactNumber : {Undef, "123"}]

\* A POST /sessions/:sessionId/messages with the body req has arrived.
SendMessageBody(req) ==
  [p |-> <<"body", 0>>, res |-> "none", h |-> NoHandle, start |-> NoTime,
   req |-> req, out |-> [threw |-> "", message |-> <<>>]]

\* The route validates the body before it calls sendMessage.
ValidateRequest ==
  /\ ret.p = <<"body", 0>>
  /\ ret' = [ret EXCEPT !.p = <<"validate", 0>>, !.out = validateSendMessageRequest(ret.req)]
  /\ UNCHANGED <<now, env, sessions, clients, metadataFile, authDirs, numHandles, hs, cb,
                 procs, qrSeq, numDeletes>>

InitValidate ==
  /\ now = 0
  /\ boot = BootDone
  /\ useMock = TRUE
  /\ user = MockInfo
  /\ quota = [handles |-> 0, qrs |-> 0, deletes |-> 0]
  /\ wh = NewWebhook(FALSE, "", RetryAttemptsDefault)
  /\ auth = NoAuth
  /\ msgs = NoSend
  /\ sessions = EmptyMap
  /\ clients = EmptyMap
  /\ metadataFile = EmptyMap
  /\ authDirs = {}
  /\ numHandles = 0
  /\ hs = [h \in Handles |-> Unbuilt]
  /\ cb = [h \in Handles |-> NoCallbacks]
  /\ procs = [p \in Procs |-> IdleProc]
  /\ \E req \in SendMessageRequests : ret = SendMessageBody(req)
  /\ qrSeq = 0
  /\ numDeletes = 0

SpecValidate == InitValidate /\ [][ValidateRequest]_vars

\* ------------------------------------------------------- metadata store
\* Under SpecStore the PersistenceAdapter is called alone and metadataFile is
\* sessions-metadata.json itself: kind tells whether the file is missing,
\* holds text that is no JSON ("invalid"), holds the JSON text `null`, or
\* holds a JSON object, which is json.

\* JSON.stringify leaves out the keys of a record whose value is undefined.
Stringified(rec) ==
  [f \in {g \in DOMAIN rec :
            rec[g] # (IF g \in {"id", "phoneNumber", "name"} THEN Undef ELSE NoIso)} |-> rec[f]]

\* saveMetadata(metadata): writeFile(JSON.stringify(metadata)).
saveMetadata(metadata) ==
  [kind |-> "object", json |-> [id \in DOMAIN metadata |-> Stringified(metadata[id])]]

\* loadMetadata(): JSON.parse(readFile) inside try, `catch { return {} }`:
\* readFile rejects for a missing file and JSON.parse throws on invalid text.
\* The text `null` parses, to null, on which the callers throw a TypeError.
loadMetadata(file) == IF file.kind = "object" THEN file.json ELSE EmptyMap

\* getAllSessions(): Object.values(metadata).
getAllSessions(file) == RecordsFrom(loadMetadata(file), 1)

\* A call of the adapter has returned or thrown: data and id are its
\* arguments, all is what a getAllSessions() called next returns.
StoreRet(res, data, id, file, threw) ==
  [p |-> <<"store", 0>>, res |-> res, h |-> NoHandle, start |-> NoTime, data |-> data,
   id |-> id, threw |-> threw, all |-> getAllSessions(file)]

\* The records saved: for each id, of a session that connected or never did.
StoreRecords == {PersistedRecord(id, c) : id \in PersistedIds, c \in BOOLEAN}

\* await adapter.saveSessionMetadata(data)
StoreSave(data) ==
  /\ metadataFile' = IF metadataFile.kind = "null" THEN metadataFile
                     ELSE saveMetadata(saveSessionMetadata(loadMetadata(metadataFile), data))
  /\ ret' = StoreRet("save", data, data.id, metadataFile', metadataFile.kind = "null")
  /\ UNCHANGED <<now, env, sessions, clients, authDirs, numHandles, hs, cb, procs, qrSeq,
                 numDeletes>>

\* await adapter.removeSessionMetadata(id)
StoreRemove(id) ==
  /\ metadataFile' = IF metadataFile.kind = "null" THEN metadataFile
                     ELSE saveMetadata(removeSessionMetadata(loadMetadata(metadataFile), id))
  /\ ret' = StoreRet("remove", NoRec, id, metadataFile', metadataFile.kind = "null")
  /\ UNCHANGED <<now, env, sessions, clients, authDirs, numHandles, hs, cb, procs, qrSeq,
                 numDeletes>>

\* await adapter.getAllSessions()
StoreRead ==
  /\ ret' = StoreRet("read", NoRec, "", metadataFile, metadataFile.kind = "null")
  /\ UNCHANGED <<now, env, sessions, clients, metadataFile, authDirs, numHandles, hs, cb, procs,
                 qrSeq, numDeletes>>

\* await adapter.deleteSessionAuth(id): fs.rm with force, inside try/catch.
StoreDeleteAuth(id) ==
  /\ authDirs' = authDirs \ {id}
  /\ ret' = StoreRet("deleteAuth", NoRec, id, metadataFile, FALSE)
  /\ UNCHANGED <<now, env, sessions, clients, metadataFile, numHandles, hs, cb, procs, qrSeq,
                 numDeletes>>

\* The adapter finds the file as initialize() left it ({}), or missing, or
\* damaged; an auth directory exists or not.
InitStore ==
  /\ now = 0
  /\ boot = BootDone
  /\ useMock = TRUE
  /\ user = MockInfo
  /\ quota = [handles |-> 0, qrs |-> 0, deletes |-> 0]
  /\ wh = NewWebhook(FALSE, "", RetryAttemptsDefault)
  /\ auth = NoAuth
  /\ msgs = NoSend
  /\ sessions = EmptyMap
  /\ clients = EmptyMap
  /\ \E kind \in {"object", "missing", "invalid", "null"} :
        metadataFile = [kind |-> kind, json |-> EmptyMap]
  /\ authDirs \in SUBSET PersistedIds
  /\ numHandles = 0
  /\ hs = [h \in Handles |-> Unbuilt]
  /\ cb = [h \in Handles |-> NoCallbacks]
  /\ procs = [p \in Procs |-> IdleProc]
  /\ ret = StoreRet("start", NoRec, "", metadataFile, FALSE)
  /\ qrSeq = 0
  /\ numDeletes = 0

NextStore ==
  \/ \E data \in StoreRecords : StoreSave(data)
  \/ \E id \in PersistedIds : StoreRemove(id)
  \/ StoreRead
  \/ \E id \in PersistedIds : StoreDeleteAuth(id)

SpecStore == InitStore /\ [][NextStore]_vars

\* ---------------------------------------------------------------- claims
\* The response of the step just taken is that of a GET /sessions/:id whose
\* refreshQRCode regenerated: it constructed client ret.h for an expired QR.
Regenerated == ret.p \in Readers /\ ret.h # NoHandle

\* The clients refreshQRCode constructed.
RefreshHandlesBuilt == {h \in 1..numHandles : hs[h].cause[1] = "refresh"}

\* C1: concurrent reads of a session whose QR has expired regenerate it once:
\* no two clients are constructed for the same expired QR (its code and its
\* expiry), no client's connect() is called twice, and the client of a
\* regeneration that has returned had its connect() called exactly once.
C1_OneRegenerationPerExpiry ==
  /\ \A h1, h2 \in RefreshHandlesBuilt : hs[h1].cause = hs[h2].cause => h1 = h2
  /\ \A h \in 1..numHandles : hs[h].connects <= 1
  /\ Regenerated => hs[ret.h].connects = 1

\* C1 witness: a read returns at once while another read is regenerating the
\* session, whose QR is still the expired one.
C1_Witness ==
  /\ ret.p \in Readers
  /\ ret.h = NoHandle
  /\ ret.res = "ok"
  /\ \E q \in Readers, id \in DOMAIN sessions :
       /\ procs[q].pc \in {"init_io", "auth_io"}
       /\ procs[q].id = id
       /\ hs[procs[q].h].cause = <<"refresh", sessions[id].qrCode, sessions[id].qrExpiresAt>>
       /\ sessions[id].qrExpiresAt <= now

\* C2: a read that regenerated an expired QR and returns normally answers with
\* a credential other than the expired one.
C2_FreshCredential ==
  (Regenerated /\ ret.res = "ok") =>
     \A id \in DOMAIN sessions : sessions[id].qrCode # hs[ret.h].cause[2]

\* C3: in the Registry, qrCode and qrExpiresAt are both set or both undefined.
C3_QrAndExpiryTogether ==
  \A id \in DOMAIN sessions :
     (sessions[id].qrCode = NoQr) <=> (sessions[id].qrExpiresAt = NoTime)

\* C3 witness: a session that got a QR code and then saw its transport
\* disconnect still has both fields.
C3_Witness ==
  \E id \in DOMAIN sessions :
     /\ sessions[id].status = "disconnected"
     /\ sessions[id].qrCode # NoQr
     /\ sessions[id].qrExpiresAt # NoTime

\* C4: no step takes a session from connected back to qr_waiting.
C4_NoRollback ==
  [][\A id \in DOMAIN sessions \cap DOMAIN sessions' :
        ~(sessions[id].status = "connected" /\ sessions'[id].status = "qr_waiting")]_vars

\* A client a refresh has replaced: a later client was constructed by
\* refreshQRCode for the same session.
Superseded(h) ==
  \E h2 \in (h + 1)..numHandles : hs[h2].sid = hs[h].sid /\ hs[h2].cause[1] = "refresh"

\* C5: once a refresh has constructed the new client, no callback of the old
\* client is delivered or goes on: a step of one of its handlers changes
\* neither the Registry nor the registered clients.
C5_OldHandleSilent ==
  [][\A h \in 1..numHandles :
        (Superseded(h) /\ cb'[h] # cb[h]) => (sessions' = sessions /\ clients' = clients)]_vars

Quiet ==
  /\ \A p \in Procs : procs[p].pc = "idle"
  /\ \A h \in 1..numHandles, kind \in {"qr", "cn", "dc"} : cb[h][kind].st = "none"

\* C7: once POST /sessions has failed on the timeout of its wait and the work
\* it started is over, the id is in no map and has no metadata.
C7_TeardownComplete ==
  (ret.p = Creator /\ ret.res = "timeout" /\ Quiet) =>
     \A id \in SessionIds :
        /\ id \notin DOMAIN sessions
        /\ id \notin DOMAIN clients
        /\ id \notin DOMAIN metadataFile

\* A step in which the waitForQRCode of request p takes a turn.
WaitTurn(p) ==
  /\ procs[p].pc \in {"init_io", "auth_io", "wait"}
  /\ \/ procs'[p].pc = "wait"
     \/ ret'.p = p /\ ret'.res \in {"ok", "timeout", "notfound"}

C9_RefreshNoop ==
  [][\A p \in Readers, id \in DOMAIN sessions :
        (/\ procs[p].pc = "idle"
         /\ \/ sessions[id].status # "qr_waiting"
            \/ now < sessions[id].qrExpiresAt)
        => (/\ procs'[p].pc = "idle"
            /\ ret'.p = p =>
                 /\ ret'.res = "ok"
                 /\ ret'.h = NoHandle
                 /\ UNCHANGED <<sessions, clients, hs, cb, numHandles>>)]_vars

\* C9 witness: a read of a session whose QR has not expired has answered.
C9_Witness ==
  /\ ret.p \in Readers
  /\ ret.res = "ok"
  /\ ret.h = NoHandle
  /\ \E id \in DOMAIN sessions :
       sessions[id].status = "qr_waiting" /\ now < sessions[id].qrExpiresAt

\* C10: a refresh that ends while the session still has the expired QR leaves
\* the session qr_waiting, so that the next read refreshes again.
C10_FailedRefreshRetries ==
  Regenerated =>
     \A id \in DOMAIN sessions :
        sessions[id].qrCode = hs[ret.h].cause[2] =>
           (sessions[id].status = "qr_waiting" /\ ~RefreshIsNoop(sessions[id], now))

\* C11: a POST /sessions for an id that is in the Registry is answered
\* "already exists", and the step changes neither the Registry (the session's
\* status, QR code, account, createdAt) nor the metadata file.
C11_DuplicateRejected ==
  [][\A id \in DOMAIN sessions :
        (procs[Creator].pc = "idle" /\ (ret'.p = Creator \/ procs'[Creator] # procs[Creator]))
        => (/\ ret'.p = Creator
            /\ ret'.res = "exists"
            /\ UNCHANGED <<sessions, metadataFile>>)]_vars

\* C11 witness: a duplicate POST was rejected for a session that has a QR code
\* and a metadata record.
C11_Witness ==
  /\ ret.p = Creator
  /\ ret.res = "exists"
  /\ \E id \in DOMAIN sessions \cap DOMAIN metadataFile : sessions[id].qrCode # NoQr

\* C12: when DELETE /sessions/:id has completed for a session that existed,
\* and no session was created anew under the id meanwhile, the id has no
\* metadata record and no auth directory (and is not in the Registry).
C12_DeleteRemovesAll ==
  (ret.p = Deleter /\ ret.res = "deleted") =>
     \A id \in SessionIds :
        id \notin DOMAIN sessions => (id \notin DOMAIN metadataFile /\ id \notin authDirs)

\* C13: a DELETE for an id that is not in the Registry is answered not-found
\* in that very step, which changes neither the Registry nor the metadata file
\* nor the auth directories.
C13_DeleteUnknown ==
  [][\A id \in SessionIds :
        (/\ procs[Deleter].pc = "idle"
         /\ id \notin DOMAIN sessions
         /\ (ret'.p = Deleter \/ procs'[Deleter] # procs[Deleter]))
        => (/\ ret'.p = Deleter
            /\ ret'.res = "notfound"
            /\ UNCHANGED <<sessions, metadataFile, authDirs>>)]_vars

\* C13 witness: a delete repeated after the delete that removed the session.
C13_Witness ==
  /\ ret.p = Deleter
  /\ ret.res = "notfound"
  /\ numDeletes = 1

\* The clients the startup constructed for session id.
StartupHandles(id) ==
  {h \in 1..numHandles : hs[h].sid = id /\ hs[h].cause = <<"startup">>}

\* C14: when loadPersistedSessions has ended, a record it read is in the
\* Registry exactly when its auth directory exists; a restored session is
\* disconnected, has the record's phoneNumber, name, createdAt and connectedAt
\* and no QR code, and its record is kept; a record without auth directory is
\* no longer in the metadata file.
C14_RecoveryAdmission ==
  boot.pc = "loaded" =>
     /\ DOMAIN sessions = {boot.list[i].id : i \in DOMAIN boot.list} \cap authDirs
     /\ \A i \in DOMAIN boot.list :
          LET r == boot.list[i] IN
          IF r.id \in authDirs
          THEN /\ sessions[r.id].id = r.id
               /\ sessions[r.id].status = "disconnected"
               /\ sessions[r.id].phoneNumber = r.phoneNumber
               /\ sessions[r.id].name = r.name
               /\ ToISOString(sessions[r.id].createdAt) = r.createdAt
               /\ (IF r.connectedAt = NoIso THEN sessions[r.id].connectedAt = NoTime
                   ELSE ToISOString(sessions[r.id].connectedAt) = r.connectedAt)
               /\ sessions[r.id].qrCode = NoQr
               /\ sessions[r.id].qrExpiresAt = NoTime
               /\ r.id \in DOMAIN metadataFile
               /\ metadataFile[r.id] = r
          ELSE r.id \notin DOMAIN metadataFile

\* C14 witness: of two records read, one that had connected is restored and
\* the other is removed.
C14_Witness ==
  /\ boot.pc = "loaded"
  /\ \E i, j \in DOMAIN boot.list :
       /\ boot.list[i].id \in DOMAIN sessions
       /\ boot.list[i].connectedAt # NoIso
       /\ boot.list[j].id \notin DOMAIN sessions

\* C15 as stated: when the startup has finished, every restored session is
\* disconnected and one connect() has been issued for it.
C15_DisconnectedAfterStartup ==
  ret.res = "listening" =>
     \A id \in DOMAIN sessions :
        /\ sessions[id].status = "disconnected"
        /\ \E h \in StartupHandles(id) : hs[h].connects = 1

\* C15 amended: once the startup has finished, one client has been
\* constructed for every restored session and its connect() called once, and
\* the session is connecting, or what its client has reported since: it is
\* disconnected only when the socket has closed.
C15_ConnectingAfterStartup ==
  boot.pc = "done" =>
     \A id \in DOMAIN sessions :
        /\ Cardinality(StartupHandles(id)) = 1
        /\ \A h \in StartupHandles(id) :
             /\ hs[h].connects = 1
             /\ \/ sessions[id].status = "connecting"
                \/ sessions[id].status = "qr_waiting" /\ sessions[id].qrCode # NoQr
                \/ sessions[id].status = "connected" /\ hs[h].conn = "open"
                \/ sessions[id].status = "disconnected" /\ hs[h].sock = "closed"

\* C15 witness: the startup has just finished with a restored session that
\* is connecting.
C15_Witness ==
  /\ ret.res = "listening"
  /\ \E id \in DOMAIN sessions :
       sessions[id].status = "connecting" /\ \E h \in StartupHandles(id) : hs[h].connects = 1

\* C16: the startup ends only when connect() has been called for every
\* restored session, those after a session whose connect() failed included.
C16_RecoveryIndependent ==
  boot.pc = "done" =>
     \A id \in DOMAIN sessions : \E h \in StartupHandles(id) : hs[h].connects = 1

\* C16 witness: the startup has finished, the connect() of one session
\* failed and that of a session after it made its socket.
C16_Witness ==
  /\ boot.pc = "done"
  /\ \E id1 \in boot.failed, id2 \in DOMAIN sessions \ boot.failed :
       \E h1 \in StartupHandles(id1), h2 \in StartupHandles(id2) :
          h1 < h2 /\ hs[h2].sock = "live"

\* C17: for one event the dispatcher makes at most retryAttempts attempts; it
\* stops at the first attempt that succeeds; it returns after exactly
\* retryAttempts attempts when all of them fail; after failed attempt number k
\* that is not the last it waits k * RetryDelayMs before the next attempt; and
\* it returns at the instant the last attempt fails, without waiting.
C17_BoundedRetries ==
  /\ \A s \in 1..NumSenders :
       LET call == wh.calls[s]
       IN /\ call.attempt <= wh.retryAttempts
          /\ call.st = "sleep" =>
                /\ call.attempt < wh.retryAttempts
                /\ call.due = call.failAt + call.attempt * RetryDelayMs
          /\ (call.st = "post" /\ call.attempt > 1) =>
                call.postAt >= call.failAt + (call.attempt - 1) * RetryDelayMs
  /\ (ret.p[1] = "webhook" /\ ret.res = "delivered") =>
       /\ ret.attempts \in 1..wh.retryAttempts
       /\ wh.calls[ret.p[2]].st = "idle"
  /\ (ret.p[1] = "webhook" /\ ret.res \notin {"noop", "delivered"}) =>
       /\ ret.attempts = wh.retryAttempts
       /\ ret.attempts > 0 => ret.failAt = now

\* C17 witness: a call returns after three failed attempts, the second made
\* 1 s after the first failed and the third 2 s after the second failed.
C17_Witness ==
  /\ ret.p[1] = "webhook"
  /\ ret.res \notin {"noop", "delivered"}
  /\ ret.attempts = RetryAttemptsDefault
  /\ wh.fails = RetryAttemptsDefault
  /\ now >= RetryDelayMs + 2 * RetryDelayMs

\* C18: whatever became of the attempts, sendEvent returns normally: the event
\* was delivered, or not sent, or dropped; it never throws to its caller.
C18_NeverThrows ==
  ret.p[1] = "webhook" => ret.res \in {"noop", "delivered", "dropped"}

\* C18 witness: a call returns at the failure of its last attempt.
C18_Witness ==
  /\ ret.p[1] = "webhook"
  /\ ret.res = AllAttemptsFailed
  /\ ret.attempts >= 1
  /\ ret.failAt = now

\* C19: with delivery disabled or no URL configured, no axios.post is ever
\* made, no call is left waiting, and every call of sendEvent returns at once
\* without an attempt, whatever the type of its event.
C19_DisabledNoAttempt ==
  (~wh.enabled \/ wh.webhookUrl = "") =>
     /\ wh.posts = 0
     /\ \A s \in 1..NumSenders : wh.calls[s].st = "idle"
     /\ ret.p[1] = "webhook" => (ret.res = "noop" /\ ret.attempts = 0)

\* C19 witness: delivery is enabled but no URL is configured, and events of
\* every type have been passed to sendEvent, the last one just now.
C19_Witness ==
  /\ wh.enabled
  /\ wh.webhookUrl = ""
  /\ ret.p[1] = "webhook"
  /\ ret.res = "noop"
  /\ {wh.events[i].eventType : i \in 1..Len(wh.events)} =
        {EventTypes[k] : k \in 1..Len(EventTypes)}

C26_ConnectedHasAccount ==
  \A id \in DOMAIN sessions :
     sessions[id].status = "connected" => sessions[id].phoneNumber \notin {Undef, ""}

\* C27: a session has a qrCode or a qrExpiresAt only while its status is
\* qr_waiting.
C27_CredentialOnlyWhileWaiting ==
  \A id \in DOMAIN sessions :
     sessions[id].status # "qr_waiting" =>
        (sessions[id].qrCode = NoQr /\ sessions[id].qrExpiresAt = NoTime)

\* C28: a session whose status is qr_waiting has a qrCode and a qrExpiresAt;
\* and a step that gives a session a new qrCode sets, in that same step, its
\* status to qr_waiting and its qrExpiresAt to now + 60 s.
C28_WaitingHasCredential ==
  /\ [](\A id \in DOMAIN sessions :
          sessions[id].status = "qr_waiting" =>
             (sessions[id].qrCode # NoQr /\ sessions[id].qrExpiresAt # NoTime))
  /\ [][\A id \in DOMAIN sessions \cap DOMAIN sessions' :
          (sessions'[id].qrCode # sessions[id].qrCode /\ sessions'[id].qrCode # NoQr) =>
             /\ sessions'[id].status = "qr_waiting"
             /\ sessions'[id].qrExpiresAt = now + QrTtlMs
             /\ now' = now]_vars

\* C28 witness: a QR code has just been recorded, at an instant after the
\* start, for a session that now waits with it.
C28_Witness ==
  \E id \in DOMAIN sessions :
     /\ sessions[id].status = "qr_waiting"
     /\ sessions[id].qrCode # NoQr
     /\ sessions[id].qrExpiresAt = now + QrTtlMs
     /\ now > 0

\* C29: when the startup has ended, a restored session whose connect() failed
\* is in the Registry with status disconnected.
C29_FailedConnectDisconnected ==
  boot.pc = "done" =>
     \A id \in boot.failed :
        id \in DOMAIN sessions /\ sessions[id].status = "disconnected"

C25_SendGuards ==
  [][
    /\ msgs'.n # msgs.n =>
          LET id == msgs'.id
              quiet == /\ msgs'.calls = msgs.calls
                       /\ msgs'.st = "idle"
                       /\ UNCHANGED <<sessions, clients, metadataFile, hs>>
          IN /\ id \notin DOMAIN sessions =>
                  (ret'.res = "SessionNotFoundError" /\ ret'.code = 404 /\ quiet)
             /\ (id \in DOMAIN sessions /\ sessions[id].status # "connected") =>
                  (ret'.res = "Session not connected" /\ ret'.code = 400 /\ quiet)
    /\ (ret'.p = <<"send", 0>> /\ ret'.transport = "failed") =>
          (ret'.res = "Failed to send message" /\ ret'.code = 500)
    /\ (ret'.p = <<"send", 0>> /\ ret'.res = "sent") =>
          (ret'.transport = "ok" /\ msgs.calls > 0)
  ]_vars

\* C25 witness: a send has just been refused for a session that is in the
\* Registry with a registered client but is not connected, after an earlier
\* send went to the transport.
C25_Witness ==
  /\ ret.p = <<"send", 0>>
  /\ ret.res = "Session not connected"
  /\ ret.id \in DOMAIN sessions
  /\ ret.id \in DOMAIN clients
  /\ msgs.calls = 1
  /\ msgs.n = 2

\* C23: every event a handler hands to sendEvent has a non-empty origin: the
\* phoneNumber of the session when it is known, and the session id otherwise;
\* also session.connected when the transport reports an empty account.
C23_OriginNonEmpty ==
  (ret.p[1] = "event" /\ ret.ev.eventType # "none") =>
     /\ ret.ev.origin \notin {"", Undef}
     /\ ret.ev.sessionId \in DOMAIN sessions =>
           ret.ev.origin = Origin(sessions[ret.ev.sessionId])

\* C24: the event a status update becomes is fixed by its status code: 3 is
\* message.delivered, 4 is message.read and every other code is message.sent;
\* a status update of a session that is not in the Registry becomes no event,
\* and one of a session that is there becomes the event stored first in the
\* buffer.
C24_StatusEventType ==
  /\ []((ret.p[1] = "event" /\ ret.res = "status") =>
          IF hs[ret.h].sid \in DOMAIN sessions
          THEN /\ ret.ev.eventType = CASE ret.code = 3 -> "message.delivered"
                                       [] ret.code = 4 -> "message.read"
                                       [] OTHER -> "message.sent"
               /\ ret.ev.sessionId = hs[ret.h].sid
               /\ wh.events # <<>>
               /\ Head(wh.events).eventType = ret.ev.eventType
               /\ Head(wh.events).sessionId = ret.ev.sessionId
          ELSE ret.ev = NoEvent)
  /\ [][
        (ret'.p[1] = "event" /\ ret'.res = "status" /\ hs[ret'.h].sid \notin DOMAIN sessions)
           => wh' = wh
      ]_vars

\* A status update with code 3 of the session in the Registry has become
\* message.delivered.
C24_Witness ==
  /\ ret.p[1] = "event"
  /\ ret.res = "status"
  /\ ret.code = 3
  /\ ret.ev.eventType = "message.delivered"
  /\ hs[ret.h].sid \in DOMAIN sessions
  /\ wh.numEvents = 1

\* C21: a disconnect does not wait for the delivery of its event: while an
\* attempt to deliver session.disconnected has failed and sendEvent sleeps
\* before the next one, the client that reported the disconnect is no longer
\* the registered client of its session.
C21_DisconnectNotBlocked ==
  \A h \in 1..numHandles :
     (cb[h].dc.st = "emit" /\ wh.calls[cb[h].dc.tok[2]].st = "sleep")
        => ~(hs[h].sid \in DOMAIN clients /\ clients[hs[h].sid] = h)

\* C22: a lifecycle event is handed to sendEvent only when the Registry shows
\* its transition: at the hand-over of session.connected the session, if it
\* is still there, is in none of the states before a connection, and at the
\* hand-over of session.disconnected it is disconnected.
C22_EventAfterUpdate ==
  (ret.p[1] = "event" /\ ret.ev.eventType # "none" /\ ret.ev.sessionId \in DOMAIN sessions) =>
     /\ ret.ev.eventType = "session.connected" =>
           sessions[ret.ev.sessionId].status \notin {"initializing", "connecting", "qr_waiting"}
     /\ ret.ev.eventType = "session.disconnected" =>
           sessions[ret.ev.sessionId].status = "disconnected"

\* C35: once a DELETE of a session and every update of it have completed (no
\* request and no handler is in flight), the metadata file has no record for
\* an id that is not in the Registry.
C35_DeletedLeavesNoRecord ==
  (Quiet /\ numDeletes > 0) =>
     \A id \in SessionIds : id \notin DOMAIN sessions => id \notin DOMAIN metadataFile

\* C36: when no request and no handler is in flight, and no session was ever
\* deleted, the metadata file has one record per session of the Registry,
\* with the id, phoneNumber, name, createdAt and connectedAt of the session.
C36_StoreMatchesRegistry ==
  (Quiet /\ numDeletes = 0) =>
     /\ DOMAIN metadataFile = DOMAIN sessions
     /\ \A id \in DOMAIN sessions :
          LET data == SessionDataOf(sessions[id], now)
              rec == metadataFile[id]
          IN /\ rec.id = data.id
             /\ rec.phoneNumber = data.phoneNumber
             /\ rec.name = data.name
             /\ rec.createdAt = data.createdAt
             /\ rec.connectedAt = data.connectedAt

\* C34: the step that constructs a client (initializeSession, for a create
\* or a refresh) leaves its session connecting and calls no connect(); a
\* connect() is called only on a client constructed in an earlier step; and a
\* session becomes connecting in no other step.
C34_ConnectingBeforeConnect ==
  [][
      /\ numHandles' > numHandles =>
            /\ numHandles' = numHandles + 1
            /\ hs'[numHandles'].sid \in DOMAIN sessions'
            /\ sessions'[hs'[numHandles'].sid].status = "connecting"
            /\ hs'[numHandles'].connects = 0
            /\ hs'[numHandles'].conn = "closed"
      /\ \A h \in Handles : hs'[h].connects > hs[h].connects => h <= numHandles
      /\ \A id \in DOMAIN sessions \cap DOMAIN sessions' :
            (sessions'[id].status = "connecting" /\ sessions[id].status # "connecting")
               => (numHandles' > numHandles /\ hs'[numHandles'].sid = id)
  ]_vars

\* The client of a create or a refresh has been connected, after the step
\* that made its session connecting.
C34_Witness ==
  /\ numHandles >= 1
  /\ hs[numHandles].connects = 1
  /\ hs[numHandles].conn = "connecting"
  /\ hs[numHandles].sid \in DOMAIN sessions
  /\ sessions[hs[numHandles].sid].status = "connecting"

\* C37: the step that completes the onDisconnected handler of a client that
\* has been replaced leaves the replacement registered: when the session's
\* registered client is another one, it still is after the step.
C37_ReplacementStaysRegistered ==
  [][
      \A h \in 1..numHandles :
         (/\ cb[h].dc.st # "none"
          /\ cb'[h].dc.st = "none"
          /\ hs[h].sid \in DOMAIN clients
          /\ clients[hs[h].sid] # h)
         => (/\ hs[h].sid \in DOMAIN clients'
             /\ clients'[hs[h].sid] = clients[hs[h].sid])
  ]_vars

C39_UpdateKeepsOtherFields ==
  [][
      \A id \in SessionIds :
         /\ id \in DOMAIN sessions \cap DOMAIN sessions' =>
               LET old == sessions[id]
                   new == sessions'[id]
                   changed == {f \in DOMAIN old : new[f] # old[f]}
               IN /\ DOMAIN new = DOMAIN old
                  /\ new.id = id
                  /\ "id" \notin changed
                  /\ "createdAt" \notin changed
                  /\ (changed # {} /\ new.status \in {"disconnected", "connecting"})
                        => changed = {"status"}
                  /\ (changed # {} /\ new.status = "qr_waiting")
                        => changed \subseteq {"status", "qrCode", "qrExpiresAt"}
                  /\ (changed # {} /\ new.status = "connected")
                        => changed \subseteq {"status", "phoneNumber", "name", "connectedAt",
                                              "qrCode", "qrExpiresAt"}
         /\ (id \notin DOMAIN sessions /\ id \in DOMAIN sessions') =>
               sessions'[id] = NewSession(id, now)
  ]_vars

\* A session created earlier has gone through the credential and connected
\* callbacks and has the createdAt of its creation.
C39_Witness ==
  \E id \in DOMAIN sessions :
     /\ sessions[id].status = "connected"
     /\ sessions[id].id = id
     /\ sessions[id].connectedAt > sessions[id].createdAt
     /\ sessions[id].phoneNumber # Undef

\* C33: validateSendMessageRequest returns a message exactly when the request
\* has `to`, a known type and what the type requires: text its text; image,
\* video and audio a mediaUrl or mediaBase64; document one of them and a
\* fileName; location a latitude and a longitude, 0 included; contact a
\* contactName and a contactNumber.  Otherwise it throws.  The message has
\* the fields of its type, each with the value of the request.
C33_ValidatorContract ==
  ret.p = <<"validate", 0>> =>
     LET req == ret.req
         out == ret.out
         Has(f) == req[f] \notin {Undef, ""}
         media == Has("mediaUrl") \/ Has("mediaBase64")
         fields == CASE req.type = "text" -> {"text"}
                     [] req.type \in {"image", "video", "audio", "document"} ->
                          {"mediaUrl", "mediaBase64", "caption", "fileName"}
                     [] req.type = "location" -> {"latitude", "longitude", "name", "address"}
                     [] req.type = "contact" -> {"contactName", "contactNumber"}
                     [] OTHER -> {}
         complete == CASE req.type = "text" -> Has("text")
                       [] req.type \in {"image", "video", "audio"} -> media
                       [] req.type = "document" -> media /\ Has("fileName")
                       [] req.type = "location" -> req.latitude # <<>> /\ req.longitude # <<>>
                       [] req.type = "contact" -> Has("contactName") /\ Has("contactNumber")
                       [] OTHER -> FALSE
     IN /\ (out.threw = "") <=> (Has("to") /\ complete)
        /\ out.threw # "" => out.message = <<>>
        /\ out.threw = "" =>
              /\ DOMAIN out.message = {"to", "type"} \cup fields
              /\ \A f \in DOMAIN out.message : out.message[f] = req[f]

\* A location request at latitude 0 and longitude 0 has been validated and
\* its message returned.
C33_Witness ==
  /\ ret.p = <<"validate", 0>>
  /\ ret.req.type = "location"
  /\ ret.req.latitude = <<0>>
  /\ ret.req.longitude = <<0>>
  /\ ret.out.threw = ""
  /\ ret.out.message.latitude = <<0>>

\* C31: the metadata store is a map keyed by id.  Over calls run one at a
\* time on a file that is missing or holds an object or invalid text, what
\* getAllSessions returns after a save is what it returned before, without
\* the record of the saved id and with the saved record; after a remove it is
\* what it returned before without the record of the removed id; and it never
\* has two records of one id.  A key that is left out of the file reads as
\* undefined.
C31_StoreIsMap ==
  [][
      LET Value(rec, f) ==
            IF f \in DOMAIN rec THEN rec[f]
            ELSE IF f \in {"id", "phoneNumber", "name"} THEN Undef ELSE NoIso
          Full(rec) ==
            [f \in {"id", "phoneNumber", "name", "createdAt", "connectedAt",
                    "lastDisconnectedAt"} |-> Value(rec, f)]
          Recs(all) == {Full(all[i]) : i \in 1..Len(all)}
          before == Recs(ret.all)
          after == Recs(ret'.all)
      IN (metadataFile.kind # "null" /\ ret' # ret) =>
            /\ ~ret'.threw
            /\ \A i, j \in 1..Len(ret'.all) : ret'.all[i].id = ret'.all[j].id => i = j
            /\ ret'.res = "save" =>
                  after = {r \in before : r.id # ret'.data.id} \cup {ret'.data}
            /\ ret'.res = "remove" => after = {r \in before : r.id # ret'.id}
            /\ ret'.res \in {"read", "deleteAuth"} => after = before
  ]_vars

\* Both ids were saved, s1 was saved again with another record and s2 was
\* removed: getAllSessions returns the last record of s1 alone.
C31_Witness ==
  /\ ret.p = <<"store", 0>>
  /\ ret.res = "remove"
  /\ ret.id = "s2"
  /\ Len(ret.all) = 1
  /\ ret.all[1].id = "s1"
  /\ "connectedAt" \in DOMAIN ret.all[1]
  /\ metadataFile.kind = "object"

\* C32: getAllSessions on a metadata file that is missing or does not hold
\* the metadata object returns an empty list and does not throw, and
\* deleteSessionAuth does not throw, whether the directory exists or not.
C32_DamagedFileReadsEmpty ==
  ret.p = <<"store", 0>> =>
     /\ (ret.res = "read" /\ metadataFile.kind # "object") => (~ret.threw /\ ret.all = <<>>)
     /\ ret.res = "deleteAuth" => ~ret.threw

\* C40: under SpecRefreshLive, once a read has started to regenerate the
\* expired QR code of a session (its refreshQRCode is past the guards and
\* awaits initializeSession), the session eventually is connected, or
\* qr_waiting with a QR code that has not expired.
C40_RefreshCompletes ==
  \A id \in SessionIds :
     (\E p \in Readers : procs[p].pc = "init_io" /\ procs[p].id = id)
       ~> (/\ id \in DOMAIN sessions
           /\ \/ sessions[id].status = "connected"
              \/ sessions[id].status = "qr_waiting" /\ now < sessions[id].qrExpiresAt)

\* The client a refresh constructed has reported a QR code and the session
\* is qr_waiting with it, unexpired, in place of the expired one.
C40_Witness ==
  \E h \in 1..numHandles :
     /\ hs[h].cause[1] = "refresh"
     /\ hs[h].sock = "live"
     /\ hs[h].sid \in DOMAIN sessions
     /\ sessions[hs[h].sid].status = "qr_waiting"
     /\ sessions[hs[h].sid].qrCode # hs[h].cause[2]
     /\ hs[h].cause[3] <= now
     /\ now < sessions[hs[h].sid].qrExpiresAt

====
